---------------------------- MODULE Spec2Model ----------------------------
(***************************************************************************)
(* A model of the Metadata Template Language evaluator of mdinfo           *)
(* (src/mdinfo/mtlparser.py): MTLParser.render, _render_statement,         *)
(* _render_template_string, the field provider chain and the variable      *)
(* store.                                                                  *)
(*                                                                         *)
(* Representation.  A Python str is a sequence of one-character strings    *)
(* ("ab" is <<"a", "b">>), so concatenation is \o and "" is <<>>.  An      *)
(* Optional value is a sequence of length 0 (None) or 1 (<<v>>).  A        *)
(* template is given in parsed form (the textX grammar file is not part of *)
(* the sources): a statement is the sequence of its template_strings, each *)
(* a record [pre, template, post] with template an Optional expression.    *)
(***************************************************************************)
EXTENDS Integers, Sequences, FiniteSets, TLC

VARIABLES
    pc,         \* "idle" | "loop" | "returned" | "raised": position of render
    cfg,        \* the constructor arguments kept on the MTLParser instance
    ext,        \* the external get_field_values callable given to __init__
    variables,  \* self.variables: variable name -> list of str
    template,   \* the template_strings of the statement consumed so far
    results,    \* the accumulator of _render_statement
    segs,       \* per consumed template_string: its final vals and rendered
    log,        \* the get_field_values lookups of the current render call
    stale,      \* whether self.variables held bindings when the call began
    ret,        \* outcome of the last render call: [st, val]
    cli,        \* the command line program: its position, arguments and output
    expanding,  \* a call of expand_variables: its position and its locals
    parser_model, \* MTLParserModel: cls.instance and the objects created
    threads     \* the threads calling MTLParserModel(): position and self

vars ==
    <<pc, cfg, ext, variables, template, results, segs, log, stale, ret, cli,
      expanding, parser_model, threads>>

----------------------------------------------------------------------------
(* Bounds of the model *)

\* the longest statement (number of top-level template_strings) rendered
MaxSegs == 2

\* the most file arguments and the most -p templates of one command line
MaxFiles == 2
MaxTemplates == 2

----------------------------------------------------------------------------
(* Python values *)

None == <<>>
Some(v) == <<v>>

\* [v for v in s if v is not None], unwrapping the Optional entries
RECURSIVE StripNone(_)
StripNone(s) ==
    IF s = <<>> THEN <<>>
    ELSE IF Head(s) = None THEN StripNone(Tail(s))
    ELSE <<Head(s)[1]>> \o StripNone(Tail(s))

\* [v for v in s if v] and [v for v in s if v != ""]: the non-empty strings
RECURSIVE NonEmpty(_)
NonEmpty(s) ==
    IF s = <<>> THEN <<>>
    ELSE IF Head(s) = <<>> THEN NonEmpty(Tail(s))
    ELSE <<Head(s)>> \o NonEmpty(Tail(s))

\* sep.join(strs)
RECURSIVE Join(_, _)
Join(sep, strs) ==
    IF strs = <<>> THEN <<>>
    ELSE IF Len(strs) = 1 THEN strs[1]
    ELSE strs[1] \o sep \o Join(sep, Tail(strs))

IsSpace(c) == c \in {" ", "\t", "\n", "\r", "\f"}

\* str.strip()
RECURSIVE LStrip(_)
LStrip(s) == IF s # <<>> /\ IsSpace(Head(s)) THEN LStrip(Tail(s)) ELSE s
RECURSIVE RStrip(_)
RStrip(s) ==
    IF s # <<>> /\ IsSpace(s[Len(s)]) THEN RStrip(SubSeq(s, 1, Len(s) - 1))
    ELSE s
Strip(s) == RStrip(LStrip(s))

\* s[n:], for 0 <= n
Drop(s, n) == SubSeq(s, n + 1, Len(s))

\* s.startswith(p), s.endswith(p), p in s
StartsWith(s, p) == Len(p) <= Len(s) /\ SubSeq(s, 1, Len(p)) = p
EndsWith(s, p) ==
    Len(p) <= Len(s) /\ SubSeq(s, Len(s) - Len(p) + 1, Len(s)) = p
Contains(s, p) ==
    \E i \in 1..(Len(s) + 1) :
        i + Len(p) - 1 <= Len(s) /\ SubSeq(s, i, i + Len(p) - 1) = p

\* s.replace(find, repl) with a non-empty find: the occurrences from left to
\* right, not overlapping
RECURSIVE ReplaceNonEmpty(_, _, _)
ReplaceNonEmpty(s, find, repl) ==
    IF s = <<>> THEN <<>>
    ELSE IF StartsWith(s, find)
    THEN repl \o ReplaceNonEmpty(Drop(s, Len(find)), find, repl)
    ELSE <<Head(s)>> \o ReplaceNonEmpty(Tail(s), find, repl)

\* s.replace("", repl): repl before every character and at the end
RECURSIVE ReplaceEmpty(_, _)
ReplaceEmpty(s, repl) ==
    IF s = <<>> THEN repl
    ELSE repl \o <<Head(s)>> \o ReplaceEmpty(Tail(s), repl)

\* s.replace(find, repl)
Replace(s, find, repl) ==
    IF find = <<>> THEN ReplaceEmpty(s, repl)
    ELSE ReplaceNonEmpty(s, find, repl)

\* s.split(sep) with a non-empty sep; cur is the piece being read
RECURSIVE SplitFrom(_, _, _)
SplitFrom(s, sep, cur) ==
    IF s = <<>> THEN <<cur>>
    ELSE IF StartsWith(s, sep)
    THEN <<cur>> \o SplitFrom(Drop(s, Len(sep)), sep, <<>>)
    ELSE SplitFrom(Tail(s), sep, Append(cur, Head(s)))
Split(s, sep) == SplitFrom(s, sep, <<>>)

\* the decimal digits, in order of value
Digits == <<"0", "1", "2", "3", "4", "5", "6", "7", "8", "9">>
IsDigit(c) == \E d \in DOMAIN Digits : Digits[d] = c
DigitValue(c) == (CHOOSE d \in DOMAIN Digits : Digits[d] = c) - 1
AllDigits(s) == s # <<>> /\ \A i \in DOMAIN s : IsDigit(s[i])

\* the value of a string of digits
RECURSIVE DigitsValue(_)
DigitsValue(s) ==
    IF s = <<>> THEN 0
    ELSE 10 * DigitsValue(SubSeq(s, 1, Len(s) - 1)) + DigitValue(s[Len(s)])

\* str(n) for an int n
RECURSIVE NatToStr(_)
NatToStr(n) ==
    IF n < 10 THEN <<Digits[n + 1]>>
    ELSE NatToStr(n \div 10) \o <<Digits[(n % 10) + 1]>>
IntToStr(n) == IF n < 0 THEN <<"-">> \o NatToStr(0 - n) ELSE NatToStr(n)

\* the characters \w of a regular expression matches (ASCII)
WordChars ==
    {"a", "b", "c", "d", "e", "f", "g", "h", "i", "j", "k", "l", "m", "n",
     "o", "p", "q", "r", "s", "t", "u", "v", "w", "x", "y", "z",
     "A", "B", "C", "D", "E", "F", "G", "H", "I", "J", "K", "L", "M", "N",
     "O", "P", "Q", "R", "S", "T", "U", "V", "W", "X", "Y", "Z",
     "0", "1", "2", "3", "4", "5", "6", "7", "8", "9", "_"}

\* the characters a str that int() accepts is made of: digits, sign,
\* underscore and blanks
IntChars ==
    {"0", "1", "2", "3", "4", "5", "6", "7", "8", "9", "+", "-", "_",
     " ", "\t", "\n", "\r", "\f"}

\* the characters a str that float() accepts is made of: those of int(),
\* point, exponent, and the letters of inf, infinity and nan in either case
FloatChars ==
    IntChars \cup {".", "e", "E", "i", "I", "n", "N", "f", "F", "t", "T",
                   "y", "Y", "a", "A"}

\* the whole number written as digits with an optional minus sign
SignedDigits(s) ==
    AllDigits(s) \/ (s # <<>> /\ Head(s) = "-" /\ AllDigits(Tail(s)))
SignedDigitsValue(s) ==
    IF Head(s) = "-" THEN 0 - DigitsValue(Tail(s)) ELSE DigitsValue(s)

\* int(s): Some(n), or None when int raises ValueError.  Defined on the
\* strings the model uses: digits with an optional minus sign, and strings
\* that are empty or hold a character no int is written with.
StrToInt(s) ==
    CASE SignedDigits(s) -> Some(SignedDigitsValue(s))
      [] s = <<>> \/ (\E i \in DOMAIN s : s[i] \notin IntChars) -> None

\* float(s): Some(n), or None when float raises ValueError.  Defined on the
\* strings the model uses: whole numbers, and strings that are empty or hold
\* a character no float is written with.
StrToFloat(s) ==
    CASE SignedDigits(s) -> Some(SignedDigitsValue(s))
      [] s = <<>> \/ (\E i \in DOMAIN s : s[i] \notin FloatChars) -> None

----------------------------------------------------------------------------
(* Field names and literal text used by the templates of the model *)

f_var       == <<"v", "a", "r">>
f_strip     == <<"s", "t", "r", "i", "p">>
f_name      == <<"n", "a", "m", "e">>
f_tags      == <<"t", "a", "g", "s">>
f_empty     == <<"e", "m", "p", "t", "y">>
f_nul       == <<"n", "u", "l">>
f_title     == <<"t", "i", "t", "l", "e">>
f_nosuch    == <<"n", "o", "s", "u", "c", "h">>
f_format    == <<"f", "o", "r", "m", "a", "t">>
f_size      == <<"s", "i", "z", "e">>
f_filepath == <<"f", "i", "l", "e", "p", "a", "t", "h">>
f_filepath_name ==
    <<"f", "i", "l", "e", "p", "a", "t", "h", ".", "n", "a", "m", "e">>

f_comma        == <<"c", "o", "m", "m", "a">>
f_semicolon    == <<"s", "e", "m", "i", "c", "o", "l", "o", "n">>
f_questionmark == <<"q", "u", "e", "s", "t", "i", "o", "n", "m", "a", "r", "k">>
f_pipe         == <<"p", "i", "p", "e">>
f_percent      == <<"p", "e", "r", "c", "e", "n", "t">>
f_ampersand    == <<"a", "m", "p", "e", "r", "s", "a", "n", "d">>
f_openbrace    == <<"o", "p", "e", "n", "b", "r", "a", "c", "e">>
f_closebrace   == <<"c", "l", "o", "s", "e", "b", "r", "a", "c", "e">>
f_openparens   == <<"o", "p", "e", "n", "p", "a", "r", "e", "n", "s">>
f_closeparens  == <<"c", "l", "o", "s", "e", "p", "a", "r", "e", "n", "s">>
f_openbracket  == <<"o", "p", "e", "n", "b", "r", "a", "c", "k", "e", "t">>
f_closebracket == <<"c", "l", "o", "s", "e", "b", "r", "a", "c", "k", "e", "t">>
f_newline      == <<"n", "e", "w", "l", "i", "n", "e">>
f_lf           == <<"l", "f">>
f_cr           == <<"c", "r">>
f_crlf         == <<"c", "r", "l", "f">>

\* "{" + field + "}"
Braced(field) == <<"{">> \o field \o <<"}">>

\* PUNCTUATION_FIELDS: key -> the literal (value[1] of each entry)
PUNCTUATION_FIELDS ==
    (Braced(f_comma) :> <<",">>) @@
    (Braced(f_semicolon) :> <<";">>) @@
    (Braced(f_questionmark) :> <<"?">>) @@
    (Braced(f_pipe) :> <<"|">>) @@
    (Braced(f_percent) :> <<"%">>) @@
    (Braced(f_ampersand) :> <<"&">>) @@
    (Braced(f_openbrace) :> <<"{">>) @@
    (Braced(f_closebrace) :> <<"}">>) @@
    (Braced(f_openparens) :> <<"(">>) @@
    (Braced(f_closeparens) :> <<")">>) @@
    (Braced(f_openbracket) :> <<"[">>) @@
    (Braced(f_closebracket) :> <<"]">>) @@
    (Braced(f_newline) :> <<"\n">>) @@
    (Braced(f_lf) :> <<"\n">>) @@
    (Braced(f_cr) :> <<"\r">>) @@
    (Braced(f_crlf) :> <<"\r", "\n">>)

----------------------------------------------------------------------------
(* MTLParser.expand_variables and MTLParser.expand_variables_to_str *)

\* the outcome of a step that gives a value or raises: st is "ok" or the
\* exception raised
ValOk(val) == [st |-> "ok", val |-> val]
ValRaise(e) == [st |-> e, val |-> <<>>]

\* what (?:%%)* consumes at the start of s
RECURSIVE SkipPercentPairs(_)
SkipPercentPairs(s) ==
    IF Len(s) >= 2 /\ s[1] = "%" /\ s[2] = "%" THEN SkipPercentPairs(Drop(s, 2))
    ELSE s

\* what [\w]+ consumes at the start of s
RECURSIVE WordRun(_)
WordRun(s) ==
    IF s # <<>> /\ Head(s) \in WordChars THEN <<Head(s)>> \o WordRun(Tail(s))
    ELSE <<>>

\* variable_match.search(value)[1] for the pattern (?:%%)*(%[\w]+)?: the
\* pattern matches the empty string, so the search always matches at the
\* start of value; group 1 is the %name that follows the leading %% pairs,
\* or None when no %name follows them
variable_match(value) ==
    IF /\ SkipPercentPairs(value) # <<>>
       /\ Head(SkipPercentPairs(value)) = "%"
       /\ WordRun(Tail(SkipPercentPairs(value))) # <<>>
    THEN Some(<<"%">> \o WordRun(Tail(SkipPercentPairs(value))))
    ELSE None

\* re.sub(f"(%%)*{var}", r"\g<1>" + var_val, val), for a var_val without
\* backslash: every match of the pattern, from left to right, is replaced
\* by the last %% pair it consumed, if any, followed by var_val
RECURSIVE re_sub(_, _, _)
re_sub(var, var_val, val) ==
    IF val = <<>> THEN <<>>
    ELSE IF StartsWith(SkipPercentPairs(val), var)
    THEN (IF SkipPercentPairs(val) # val THEN <<"%", "%">> ELSE <<>>)
            \o var_val
            \o re_sub(var, var_val, Drop(SkipPercentPairs(val), Len(var)))
    ELSE <<Head(val)>> \o re_sub(var, var_val, Tail(val))

\* for val in values: for var_val in var_vals: re.sub(...)
substituted(values, var, var_vals) ==
    [k \in 1..(Len(values) * Len(var_vals)) |->
        re_sub(var, var_vals[((k - 1) % Len(var_vals)) + 1],
               values[((k - 1) \div Len(var_vals)) + 1])]

\* the for loop of expand_variables from values[i] on
RECURSIVE expand_for(_, _, _, _)
expand_for(values, i, new_values, vs) ==
    IF i > Len(values) THEN ValOk(new_values)
    ELSE IF variable_match(values[i]) = None THEN ValOk(new_values)
    ELSE IF Tail(variable_match(values[i])[1]) \notin DOMAIN vs
    THEN ValRaise("SyntaxError")
    ELSE expand_for(values, i + 1,
             new_values \o substituted(values, variable_match(values[i])[1],
                               vs[Tail(variable_match(values[i])[1])]),
             vs)

\* the while loop of expand_variables; r is the outcome of its for loop
RECURSIVE expand_while(_, _)
expand_next(values, r, vs) ==
    IF r.st # "ok" THEN r
    ELSE IF r.val = values \/ r.val = <<>> THEN ValOk(values)
    ELSE expand_while(r.val, vs)
expand_while(values, vs) ==
    expand_next(values, expand_for(values, 1, <<>>, vs), vs)

\* values = [value.replace("%%", "%") for value in values]
unescaped(r) ==
    IF r.st # "ok" THEN r
    ELSE ValOk([i \in DOMAIN r.val |->
                  Replace(r.val[i], <<"%", "%">>, <<"%">>)])

\* MTLParser.expand_variables, vs being self.variables
expand_variables(value, vs) == unescaped(expand_while(<<value>>, vs))

\* the check of expand_variables_to_str on the expanded list
single_value(expanded) ==
    IF expanded.st # "ok" THEN expanded
    ELSE IF Len(expanded.val) # 1 THEN ValRaise("SyntaxError")
    ELSE ValOk(expanded.val[1])

\* MTLParser.expand_variables_to_str
expand_variables_to_str(value, vs) == single_value(expand_variables(value, vs))

----------------------------------------------------------------------------
(* MTLParser.__init__ *)

\* the keyword defaults of __init__: no custom filter, no sanitize hooks, no
\* in-place expansion
DefaultConfig ==
    [filter_values |-> None, sanitize |-> None, sanitize_value |-> None,
     expand_inplace |-> FALSE, inplace_sep |-> <<",">>, none_str |-> <<"_">>]

\* a sanitize / sanitize_value callable (str -> str), as a caller hands one
\* to __init__: value.translate({" ": "-", "-": "="}), blanks become dashes
\* and dashes equals signs
SanitizeHook(s) ==
    [i \in DOMAIN s |->
        IF s[i] = " " THEN "-" ELSE IF s[i] = "-" THEN "=" ELSE s[i]]

\* the callables a caller hands over as sanitize_value: "translate" is
\* lambda v: v.translate(...), which raises AttributeError on None, and
\* "str" is lambda v: str(v).translate(...), which makes None the text None
SanitizeValueHooks == {"translate", "str"}

\* the files given to the command line program: the path click resolved and
\* os.stat(filepath).st_size
Files == {"pears", "warm"}
filepath_of ==
    [pears |-> <<"/", "t", "/", "p", "e", "a", "r", "s", ".", "j", "p", "g">>,
     warm |-> <<"/", "t", "/", "w", "a", "r", "m", ".", "m", "p", "3">>]
st_size == [pears |-> 12, warm |-> 7]

\* pathlib.Path(filepath).name for a resolved path: what follows the last /
PathName(filepath) ==
    Split(filepath, <<"/">>)[Len(Split(filepath, <<"/">>))]

\* the get_template_value hooks called for the file f: filestat gives
\* {size}, the file path plugin gives {filepath} and {filepath.name}, and a
\* metadata plugin gives {tags}, two tags for pears and none for warm
file_get_template_value(f, field) ==
    IF field = f_size THEN Some(<<Some(IntToStr(st_size[f]))>>)
    ELSE IF field = f_filepath THEN Some(<<Some(filepath_of[f])>>)
    ELSE IF field = f_filepath_name
    THEN Some(<<Some(PathName(filepath_of[f]))>>)
    ELSE IF field = f_tags
    THEN Some(IF f = "pears" THEN <<Some(<<"r">>), Some(<<"g">>)>> ELSE <<>>)
    ELSE None

\* the external callables the model passes as get_field_values
Providers == {"unclaimed", "meta", "shadow"}

\* get_template_value contract: None when the field is not handled, else a
\* list of Optional[str].  "unclaimed" handles nothing; "meta" handles seven
\* fields; "shadow" also handles names the built-in providers handle.
external_get_field_values(p, field, subfield, field_arg, default) ==
    IF p \in Files THEN file_get_template_value(p, field)
    ELSE IF p = "unclaimed" THEN None
    ELSE IF field = f_name THEN Some(<<Some(<<"p">>)>>)
    ELSE IF field = f_tags THEN Some(<<Some(<<"r">>), Some(<<"g">>)>>)
    ELSE IF field = f_empty THEN Some(<<>>)
    ELSE IF field = f_nul THEN Some(<<None>>)
    ELSE IF field = f_title THEN Some(<<Some(<<"a", " ", "b">>), None>>)
    ELSE IF field = f_size THEN Some(<<Some(<<"1", "2">>)>>)
    ELSE IF field = f_filepath_name
    THEN Some(<<Some(<<"p", "e", "a", "r", "s", ".", "j", "p", "g">>)>>)
    ELSE IF p = "shadow" /\ field = f_comma THEN Some(<<Some(<<"X">>)>>)
    ELSE IF p = "shadow" /\ field = f_percent THEN Some(<<>>)
    ELSE IF p = "shadow" /\ field = f_strip THEN Some(<<Some(<<"S">>)>>)
    ELSE None

\* the table looked up with the bare field name instead of "{" + field + "}"
get_punctuation_values_unbraced(field, subfield, field_arg, default) ==
    IF field \in DOMAIN PUNCTUATION_FIELDS
    THEN Some(<<Some(PUNCTUATION_FIELDS[field])>>)
    ELSE None

\* MTLParser.get_punctuation_values
get_punctuation_values(field, subfield, field_arg, default) ==
    IF Braced(field) \in DOMAIN PUNCTUATION_FIELDS
    THEN Some(<<Some(PUNCTUATION_FIELDS[Braced(field)])>>)
    ELSE None

\* a provider call that raises e instead of returning
Raised(e) == <<"raise", e>>
IsRaised(values) == Len(values) = 2

\* "{0:" + format_str + "}".format(value) for a non-empty format_str and a
\* value of the type type_, the value being given by its str; None when
\* format raises ValueError.  Defined on the format codes the model uses:
\* s, d and 0Wd with a width digit W, and the codes with a % that is neither
\* the type (the last character) nor a fill (followed by <, >, = or ^),
\* which are no format specification.
formatted(type_, v, format_str) ==
    CASE (\E i \in 1..(Len(format_str) - 1) :
            /\ format_str[i] = "%"
            /\ format_str[i + 1] \notin {"<", ">", "=", "^"}) -> None
      [] format_str = <<"s">> -> IF type_ = "str" THEN Some(v) ELSE None
      [] format_str = <<"d">> -> IF type_ = "int" THEN Some(v) ELSE None
      [] Len(format_str) = 3 /\ format_str[1] = "0" /\ IsDigit(format_str[2])
            /\ format_str[3] = "d" ->
            IF type_ # "int" THEN None
            ELSE IF Len(v) >= DigitValue(format_str[2]) THEN Some(v)
            ELSE IF Head(v) = "-"
            THEN Some(<<"-">> \o [i \in 1..(DigitValue(format_str[2]) - Len(v))
                                     |-> "0"] \o Tail(v))
            ELSE Some([i \in 1..(DigitValue(format_str[2]) - Len(v)) |-> "0"]
                        \o v)

\* format_str_value(value, format_str) for value converted to type_ from the
\* str v; the floats of the model are whole numbers, which str() writes
\* with ".0"
format_str_value(type_, v, format_str) ==
    IF format_str = <<>>
    THEN Some(IF type_ = "int" THEN IntToStr(StrToFloat(v)[1])
              ELSE IF type_ = "float"
              THEN IntToStr(StrToFloat(v)[1]) \o <<".", "0">>
              ELSE v)
    ELSE formatted(type_,
                   IF type_ = "str" THEN v ELSE IntToStr(StrToFloat(v)[1]),
                   format_str)

\* the return of the field "format" once the format string is expanded
format_return(type_, default, format_str) ==
    IF format_str.st # "ok" THEN Raised(format_str.st)
    ELSE IF \E i \in DOMAIN default :
                format_str_value(type_, default[i], format_str.val) = None
    THEN Raised("ValueError")
    ELSE Some([i \in DOMAIN default |->
                 Some(format_str_value(type_, default[i], format_str.val)[1])])

\* the field "format" with subfield TYPE:FORMAT: the values of default are
\* converted with int(float(v)) or float(v), which raise ValueError
format_values(type_, format_str, default, vs) ==
    IF type_ \notin {<<"i", "n", "t">>, <<"f", "l", "o", "a", "t">>,
                     <<"s", "t", "r">>}
    THEN Raised("SyntaxError")
    ELSE IF type_ # <<"s", "t", "r">>
            /\ \E i \in DOMAIN default : StrToFloat(default[i]) = None
    THEN Raised("ValueError")
    ELSE format_return(IF type_ = <<"i", "n", "t">> THEN "int"
                       ELSE IF type_ = <<"s", "t", "r">> THEN "str"
                       ELSE "float",
                       default, expand_variables_to_str(format_str, vs))

\* MTLParser.get_format_values, vs being self.variables
get_format_values(field, subfield, field_arg, default, vs) ==
    IF field = f_strip
    THEN Some([i \in DOMAIN default |-> Some(Strip(default[i]))])
    ELSE IF field = f_format
    THEN (IF subfield = None \/ ~Contains(subfield[1], <<":">>)
          THEN Raised("SyntaxError")
          ELSE format_values(Split(subfield[1], <<":">>)[1],
                   Drop(subfield[1],
                        Len(Split(subfield[1], <<":">>)[1]) + 1),
                   default, vs))
    ELSE None

\* self.field_values: the functions to call, in order
field_values == <<"external", "punctuation", "format">>

\* get_function(field, subfield, field_arg, default), vs being
\* self.variables
get_function(fn, field, subfield, field_arg, default, vs) ==
    IF fn = "external"
    THEN external_get_field_values(ext, field, subfield, field_arg, default)
    ELSE IF fn = "punctuation"
    THEN get_punctuation_values(field, subfield, field_arg, default)
    ELSE get_format_values(field, subfield, field_arg, default, vs)

\* the loop of get_field_values from provider i on; calls is the record of
\* the provider calls made so far
RECURSIVE lookup_from(_, _, _, _, _, _, _)
lookup_from(i, calls, field, subfield, field_arg, default, vs) ==
    IF i > Len(field_values) THEN [ret |-> None, calls |-> calls]
    ELSE LET values == get_function(field_values[i], field, subfield,
                                    field_arg, default, vs)
             made == Append(calls, [provider |-> field_values[i],
                                    ret |-> values])
         IN IF values # None THEN [ret |-> values, calls |-> made]
            ELSE lookup_from(i + 1, made, field, subfield, field_arg, default,
                             vs)

\* a get_field_values that keeps asking after a provider has claimed the
\* field and returns the last claim
RECURSIVE lookup_all_from(_, _, _, _, _, _, _, _)
lookup_all_from(i, calls, best, field, subfield, field_arg, default, vs) ==
    IF i > Len(field_values) THEN [ret |-> best, calls |-> calls]
    ELSE LET values == get_function(field_values[i], field, subfield,
                                    field_arg, default, vs)
             made == Append(calls, [provider |-> field_values[i],
                                    ret |-> values])
         IN lookup_all_from(i + 1, made,
                            IF values # None THEN values ELSE best,
                            field, subfield, field_arg, default, vs)
get_field_values_last_wins(field, subfield, field_arg, default, vs) ==
    lookup_all_from(1, <<>>, None, field, subfield, field_arg, default, vs)

\* MTLParser.get_field_values: [ret, calls]
get_field_values(field, subfield, field_arg, default, vs) ==
    lookup_from(1, <<>>, field, subfield, field_arg, default, vs)

----------------------------------------------------------------------------
(* create_slice and Python slicing *)

\* the index a slice bound x (None or Some(int)) stands for in a sequence of
\* length n, as slice.indices computes it
slice_index(x, n, lower, upper, unset) ==
    IF x = None THEN unset
    ELSE IF x[1] < 0
    THEN (IF x[1] + n < lower THEN lower ELSE x[1] + n)
    ELSE (IF x[1] > upper THEN upper ELSE x[1])

\* the elements at the 0-based indices i, i + step, ... before stop
RECURSIVE slice_from(_, _, _, _)
slice_from(s, i, stop, step) ==
    IF (step > 0 /\ i < stop) \/ (step < 0 /\ i > stop)
    THEN <<s[i + 1]>> \o slice_from(s, i + step, stop, step)
    ELSE <<>>

\* s[start:stop:step] for a str or a list s and a step that is not 0
py_slice(s, start, stop, step) ==
    IF step = None \/ step[1] > 0
    THEN slice_from(s, slice_index(start, Len(s), 0, Len(s), 0),
                    slice_index(stop, Len(s), 0, Len(s), Len(s)),
                    IF step = None THEN 1 ELSE step[1])
    ELSE slice_from(s, slice_index(start, Len(s), 0 - 1, Len(s) - 1,
                                   Len(s) - 1),
                    slice_index(stop, Len(s), 0 - 1, Len(s) - 1, 0 - 1),
                    step[1])

\* int(x) if x != "" else None, as an outcome whose val is None or Some(int)
slice_bound(x) ==
    IF x = <<>> THEN ValOk(None)
    ELSE IF StrToInt(x) = None THEN ValRaise("ValueError")
    ELSE ValOk(StrToInt(x))

\* slice(start, end, step) from the outcomes of its three bounds
slice_of(start, end, step) ==
    IF start.st # "ok" THEN start
    ELSE IF end.st # "ok" THEN end
    ELSE IF step.st # "ok" THEN step
    ELSE ValOk([start |-> start.val, end |-> end.val, step |-> step.val])

\* create_slice(args)
create_slice(args) ==
    IF Len(Split(args, <<":">>)) = 1
    THEN slice_of(IF args = <<>> THEN ValOk(Some(0)) ELSE slice_bound(args),
                  ValOk(None), ValOk(None))
    ELSE IF Len(Split(args, <<":">>)) = 2
    THEN slice_of(slice_bound(Split(args, <<":">>)[1]),
                  slice_bound(Split(args, <<":">>)[2]), ValOk(None))
    ELSE IF Len(Split(args, <<":">>)) = 3
    THEN slice_of(slice_bound(Split(args, <<":">>)[1]),
                  slice_bound(Split(args, <<":">>)[2]),
                  slice_bound(Split(args, <<":">>)[3]))
    ELSE ValRaise("SyntaxError")

\* values[create_slice(args)]: a step of 0 makes the slicing raise ValueError
sliced(values, sl) ==
    IF sl.st # "ok" THEN sl
    ELSE IF sl.val.step = Some(0) THEN ValRaise("ValueError")
    ELSE ValOk(py_slice(values, sl.val.start, sl.val.end, sl.val.step))

\* [v[slice_] for v in values]: nothing is sliced when values is empty
each_sliced(values, sl) ==
    IF sl.st # "ok" THEN sl
    ELSE IF sl.val.step = Some(0) /\ values # <<>> THEN ValRaise("ValueError")
    ELSE ValOk([i \in DOMAIN values |->
                  py_slice(values[i], sl.val.start, sl.val.end, sl.val.step)])

----------------------------------------------------------------------------
(* Python str methods used by the filters *)

LowerLetters ==
    <<"a", "b", "c", "d", "e", "f", "g", "h", "i", "j", "k", "l", "m", "n",
      "o", "p", "q", "r", "s", "t", "u", "v", "w", "x", "y", "z">>
UpperLetters ==
    <<"A", "B", "C", "D", "E", "F", "G", "H", "I", "J", "K", "L", "M", "N",
      "O", "P", "Q", "R", "S", "T", "U", "V", "W", "X", "Y", "Z">>
IsLower(c) == \E i \in DOMAIN LowerLetters : LowerLetters[i] = c
IsUpper(c) == \E i \in DOMAIN UpperLetters : UpperLetters[i] = c
IsCased(c) == IsLower(c) \/ IsUpper(c)
LowerChar(c) ==
    IF IsUpper(c)
    THEN LowerLetters[CHOOSE i \in DOMAIN UpperLetters : UpperLetters[i] = c]
    ELSE c
UpperChar(c) ==
    IF IsLower(c)
    THEN UpperLetters[CHOOSE i \in DOMAIN LowerLetters : LowerLetters[i] = c]
    ELSE c

\* s.lower(), s.upper(), s.capitalize() for ASCII text
Lower(s) == [i \in DOMAIN s |-> LowerChar(s[i])]
Upper(s) == [i \in DOMAIN s |-> UpperChar(s[i])]
Capitalize(s) ==
    [i \in DOMAIN s |-> IF i = 1 THEN UpperChar(s[i]) ELSE LowerChar(s[i])]

\* s.title(): a cased character is upper after an uncased one, lower after a
\* cased one
Title(s) ==
    [i \in DOMAIN s |->
        IF i > 1 /\ IsCased(s[i - 1]) THEN LowerChar(s[i]) ELSE UpperChar(s[i])]

\* s.split(): the runs of characters that are not blanks; cur is the run
\* being read
RECURSIVE WordsFrom(_, _)
WordsFrom(s, cur) ==
    IF s = <<>> THEN (IF cur = <<>> THEN <<>> ELSE <<cur>>)
    ELSE IF IsSpace(Head(s))
    THEN (IF cur = <<>> THEN <<>> ELSE <<cur>>) \o WordsFrom(Tail(s), <<>>)
    ELSE WordsFrom(Tail(s), Append(cur, Head(s)))
Words(s) == WordsFrom(s, <<>>)

\* the ASCII characters of the model (all printable ones but the backquote,
\* and four blanks) in the order of their code points
Ascii ==
    <<"\t", "\n", "\f", "\r", " ", "!", "\"", "#", "$", "%", "&", "'",
      "(", ")", "*", "+", ",", "-", ".", "/", "0", "1", "2", "3",
      "4", "5", "6", "7", "8", "9", ":", ";", "<", "=", ">", "?",
      "@", "A", "B", "C", "D", "E", "F", "G", "H", "I", "J", "K",
      "L", "M", "N", "O", "P", "Q", "R", "S", "T", "U", "V", "W",
      "X", "Y", "Z", "[", "\\", "]", "^", "_", "a", "b", "c",
      "d", "e", "f", "g", "h", "i", "j", "k", "l", "m", "n", "o",
      "p", "q", "r", "s", "t", "u", "v", "w", "x", "y", "z", "{",
      "|", "}", "~">>
Ord(c) == CHOOSE i \in DOMAIN Ascii : Ascii[i] = c

\* a < b for two str
RECURSIVE StrLess(_, _)
StrLess(a, b) ==
    IF b = <<>> THEN FALSE
    ELSE IF a = <<>> THEN TRUE
    ELSE IF Head(a) = Head(b) THEN StrLess(Tail(a), Tail(b))
    ELSE Ord(Head(a)) < Ord(Head(b))

\* sorted(values): v goes after the entries that are not greater than it
RECURSIVE Inserted(_, _)
Inserted(sorted_, v) ==
    IF sorted_ = <<>> THEN <<v>>
    ELSE IF StrLess(v, Head(sorted_)) THEN <<v>> \o sorted_
    ELSE <<Head(sorted_)>> \o Inserted(Tail(sorted_), v)
RECURSIVE Sorted(_)
Sorted(values) ==
    IF values = <<>> THEN <<>>
    ELSE Inserted(Sorted(SubSeq(values, 1, Len(values) - 1)),
                  values[Len(values)])

\* values[::-1]
Reversed(values) == [i \in DOMAIN values |-> values[Len(values) + 1 - i]]

\* the values without the later copies of a value
RECURSIVE Uniq(_)
Uniq(values) ==
    IF values = <<>> THEN <<>>
    ELSE LET before == Uniq(SubSeq(values, 1, Len(values) - 1))
         IN IF \E i \in DOMAIN before : before[i] = values[Len(values)]
            THEN before
            ELSE Append(before, values[Len(values)])

\* [v for v in values if v != x]
RECURSIVE Removed(_, _)
Removed(values, x) ==
    IF values = <<>> THEN <<>>
    ELSE IF Head(values) = x THEN Removed(Tail(values), x)
    ELSE <<Head(values)>> \o Removed(Tail(values), x)

\* the concatenation of the lists in lists
RECURSIVE Flatten(_)
Flatten(lists) ==
    IF lists = <<>> THEN <<>> ELSE Head(lists) \o Flatten(Tail(lists))

\* the characters shlex.quote leaves unquoted
ShellSafeChars ==
    {"%", "+", ",", "-", ".", "/", "0", "1", "2", "3", "4", "5", "6",
     "7", "8", "9", ":", "=", "@", "A", "B", "C", "D", "E", "F", "G",
     "H", "I", "J", "K", "L", "M", "N", "O", "P", "Q", "R", "S", "T",
     "U", "V", "W", "X", "Y", "Z", "_", "a", "b", "c", "d", "e", "f",
     "g", "h", "i", "j", "k", "l", "m", "n", "o", "p", "q", "r", "s",
     "t", "u", "v", "w", "x", "y", "z"}

\* shlex.quote(s)
ShellQuote(s) ==
    IF s = <<>> THEN <<"'", "'">>
    ELSE IF (\A i \in DOMAIN s : s[i] \in ShellSafeChars) THEN s
    ELSE <<"'">> \o Replace(s, <<"'">>, <<"'", "\"", "'", "\"", "'">>)
            \o <<"'">>

----------------------------------------------------------------------------
(* MTLParser.get_filter_values *)

\* the names of the built-in filters
FilterName ==
    [lower |-> <<"l", "o", "w", "e", "r">>,
     upper |-> <<"u", "p", "p", "e", "r">>,
     strip |-> <<"s", "t", "r", "i", "p">>,
     capitalize |-> <<"c", "a", "p", "i", "t", "a", "l", "i", "z", "e">>,
     titlecase |-> <<"t", "i", "t", "l", "e", "c", "a", "s", "e">>,
     braces |-> <<"b", "r", "a", "c", "e", "s">>,
     parens |-> <<"p", "a", "r", "e", "n", "s">>,
     brackets |-> <<"b", "r", "a", "c", "k", "e", "t", "s">>,
     shell_quote |-> <<"s", "h", "e", "l", "l", "_", "q", "u", "o", "t", "e">>,
     split |-> <<"s", "p", "l", "i", "t">>,
     chop |-> <<"c", "h", "o", "p">>,
     chomp |-> <<"c", "h", "o", "m", "p">>,
     autosplit |-> <<"a", "u", "t", "o", "s", "p", "l", "i", "t">>,
     sort |-> <<"s", "o", "r", "t">>,
     rsort |-> <<"r", "s", "o", "r", "t">>,
     reverse |-> <<"r", "e", "v", "e", "r", "s", "e">>,
     uniq |-> <<"u", "n", "i", "q">>,
     join |-> <<"j", "o", "i", "n">>,
     append |-> <<"a", "p", "p", "e", "n", "d">>,
     prepend |-> <<"p", "r", "e", "p", "e", "n", "d">>,
     appends |-> <<"a", "p", "p", "e", "n", "d", "s">>,
     prepends |-> <<"p", "r", "e", "p", "e", "n", "d", "s">>,
     remove |-> <<"r", "e", "m", "o", "v", "e">>,
     slice |-> <<"s", "l", "i", "c", "e">>,
     sslice |-> <<"s", "s", "l", "i", "c", "e">>]

\* the filters get_filter_values refuses without an argument
NeedArguments ==
    {FilterName.split, FilterName.chop, FilterName.chomp, FilterName.append,
     FilterName.prepend, FilterName.remove, FilterName.slice,
     FilterName.sslice}

\* a get_filter_values callable given to __init__: it handles the filter
\* "dup" and raises SyntaxError for every other filter, as its contract asks
custom_filter_values(filter_, args, values) ==
    IF filter_ = <<"d", "u", "p">> THEN ValOk(values \o values)
    ELSE ValRaise("SyntaxError")

\* re.search(r"\(.*\)", filter_), for a filter_ without newline
has_arguments(filter_) ==
    \E i, j \in DOMAIN filter_ :
        i < j /\ filter_[i] = "(" /\ filter_[j] = ")"

\* args.rstrip(")")
RECURSIVE RStripParens(_)
RStripParens(a) ==
    IF a # <<>> /\ a[Len(a)] = ")" THEN RStripParens(SubSeq(a, 1, Len(a) - 1))
    ELSE a

\* filter_.split("(", 1)[0], the name, and the args left after rstrip(")")
filter_name(filter_) ==
    IF has_arguments(filter_) THEN Split(filter_, <<"(">>)[1] ELSE filter_
filter_arguments(filter_) ==
    RStripParens(Drop(filter_, Len(Split(filter_, <<"(">>)[1]) + 1))

\* str(args) as an f-string writes it
FormatArg(args) == IF args = None THEN <<"N", "o", "n", "e">> ELSE args[1]

\* chop and chomp: int(args) with ValueError turned into SyntaxError
chopped(values, n, at_end) ==
    IF n = None THEN ValRaise("SyntaxError")
    ELSE IF n[1] = 0 THEN ValOk(values)
    ELSE IF at_end
    THEN ValOk([i \in DOMAIN values |->
                  py_slice(values[i], None, Some(0 - n[1]), None)])
    ELSE ValOk([i \in DOMAIN values |-> py_slice(values[i], n, None, None)])

\* the filters that take no argument or ignore it
plain_filter(filter_, values) ==
    CASE filter_ = FilterName.lower ->
            [i \in DOMAIN values |-> Lower(values[i])]
      [] filter_ = FilterName.upper ->
            [i \in DOMAIN values |-> Upper(values[i])]
      [] filter_ = FilterName.strip ->
            [i \in DOMAIN values |-> Strip(values[i])]
      [] filter_ = FilterName.capitalize ->
            [i \in DOMAIN values |-> Capitalize(values[i])]
      [] filter_ = FilterName.titlecase ->
            [i \in DOMAIN values |-> Title(values[i])]
      [] filter_ = FilterName.braces ->
            [i \in DOMAIN values |-> <<"{">> \o values[i] \o <<"}">>]
      [] filter_ = FilterName.parens ->
            [i \in DOMAIN values |-> <<"(">> \o values[i] \o <<")">>]
      [] filter_ = FilterName.brackets ->
            [i \in DOMAIN values |-> <<"[">> \o values[i] \o <<"]">>]
      [] filter_ = FilterName.shell_quote ->
            [i \in DOMAIN values |-> ShellQuote(values[i])]
      [] filter_ = FilterName.autosplit ->
            Flatten([i \in DOMAIN values |->
                Words(Replace(Replace(values[i], <<",">>, <<" ">>),
                              <<";">>, <<" ">>))])
      [] filter_ = FilterName.sort -> Sorted(values)
      [] filter_ = FilterName.rsort -> Reversed(Sorted(Reversed(values)))
      [] filter_ = FilterName.reverse -> Reversed(values)
      [] filter_ = FilterName.uniq -> Uniq(values)

PlainFilters ==
    {FilterName.lower, FilterName.upper, FilterName.strip,
     FilterName.capitalize, FilterName.titlecase, FilterName.braces,
     FilterName.parens, FilterName.brackets, FilterName.shell_quote,
     FilterName.autosplit, FilterName.sort, FilterName.rsort,
     FilterName.reverse, FilterName.uniq}

\* the if / elif chain of get_filter_values for the filter filter_ with the
\* expanded args (None or Some(str))
filtered(filter_, args, values) ==
    IF filter_ \in NeedArguments /\ (args = None \/ args = Some(<<>>))
    THEN ValRaise("SyntaxError")
    ELSE IF filter_ \in PlainFilters THEN ValOk(plain_filter(filter_, values))
    ELSE IF filter_ = FilterName.split
    THEN ValOk(Flatten([i \in DOMAIN values |-> Split(values[i], args[1])]))
    ELSE IF filter_ = FilterName.chop
    THEN chopped(values, StrToInt(args[1]), TRUE)
    ELSE IF filter_ = FilterName.chomp
    THEN chopped(values, StrToInt(args[1]), FALSE)
    ELSE IF filter_ = FilterName.join
    THEN ValOk(<<Join(IF args = None THEN <<>> ELSE args[1], values)>>)
    ELSE IF filter_ = FilterName.append THEN ValOk(Append(values, args[1]))
    ELSE IF filter_ = FilterName.prepend THEN ValOk(<<args[1]>> \o values)
    ELSE IF filter_ = FilterName.appends
    THEN ValOk([i \in DOMAIN values |-> values[i] \o FormatArg(args)])
    ELSE IF filter_ = FilterName.prepends
    THEN ValOk([i \in DOMAIN values |-> FormatArg(args) \o values[i]])
    ELSE IF filter_ = FilterName.remove THEN ValOk(Removed(values, args[1]))
    ELSE IF filter_ = FilterName.slice
    THEN sliced(values, create_slice(args[1]))
    ELSE IF filter_ = FilterName.sslice
    THEN each_sliced(values, create_slice(args[1]))
    ELSE IF cfg.filter_values # None
    THEN custom_filter_values(filter_, args, values)
    ELSE ValRaise("SyntaxError")

\* get_filter_values once the args are expanded
filter_with(filter_, args, values) ==
    IF args.st # "ok" THEN args
    ELSE filtered(filter_name(filter_), Some(args.val), values)

\* MTLParser.get_filter_values, vs being self.variables
get_filter_values(filter_, values, vs) ==
    IF has_arguments(filter_)
    THEN filter_with(filter_,
             expand_variables_to_str(filter_arguments(filter_), vs), values)
    ELSE filtered(filter_, None, values)

----------------------------------------------------------------------------
(* The delim, filter, find/replace and conditional steps of
   MTLParser._render_template_string *)

\* x or "" for an Optional str x
OrEmpty(x) == IF x = None THEN <<>> ELSE x[1]

\* delim: None without a delim attribute, else the expanded
\* ts.template.delim.value or ""
delim_of(t, vs) ==
    IF t.delim = None THEN ValOk(None)
    ELSE LET d == expand_variables_to_str(OrEmpty(t.delim[1].value), vs) IN
         IF d.st # "ok" THEN d ELSE ValOk(Some(d.val))

\* for filter_ in filters: vals = self.get_filter_values(filter_, vals),
\* from filter i on; v is the outcome so far
RECURSIVE filters_from(_, _, _, _)
filters_from(filters, i, v, vs) ==
    IF v.st # "ok" \/ i > Len(filters) THEN v
    ELSE filters_from(filters, i + 1,
                      get_filter_values(filters[i], v.val, vs), vs)

\* filters = ts.template.filter.value, [] without a filter attribute
filters_of(t) == IF t.filter = None THEN <<>> ELSE t.filter[1].value

\* the inner loop of find/replace on one val, from pair i on
RECURSIVE replaced_from(_, _, _, _)
replaced_from(val, pairs, i, vs) ==
    IF i > Len(pairs) THEN ValOk(val)
    ELSE LET find == expand_variables_to_str(OrEmpty(pairs[i].find), vs)
             repl == expand_variables_to_str(OrEmpty(pairs[i].replace), vs)
         IN IF find.st # "ok" THEN find
            ELSE IF repl.st # "ok" THEN repl
            ELSE replaced_from(Replace(val, find.val, repl.val), pairs,
                               i + 1, vs)

\* the outer loop of find/replace, from val i on; new_vals is the list built
RECURSIVE find_replaced_from(_, _, _, _, _)
find_replaced_from(vals, pairs, i, new_vals, vs) ==
    IF i > Len(vals) THEN ValOk(new_vals)
    ELSE LET r == replaced_from(vals[i], pairs, 1, vs) IN
         IF r.st # "ok" THEN r
         ELSE find_replaced_from(vals, pairs, i + 1, Append(new_vals, r.val),
                                 vs)

\* vals after the find/replace step; v is the outcome of the filters
find_replaced(t, v, vs) ==
    IF v.st # "ok" \/ t.findreplace = None THEN v
    ELSE find_replaced_from(v.val, t.findreplace[1].pairs, 1, <<>>, vs)

\* the operators of the grammar
StringOperators == {"contains", "matches", "startswith", "endswith"}
ComparisonOperators == {"<", "<=", ">", ">="}
Operators == StringOperators \cup {"==", "!="} \cup ComparisonOperators

\* ["True"] if (match and not negation) or (negation and not match) else []
truth(match, negation) ==
    IF (match /\ ~negation) \/ (negation /\ ~match)
    THEN << <<"T", "r", "u", "e">> >> ELSE <<>>

\* the same without the negation
truth_ignoring_negation(match, negation) ==
    IF match THEN << <<"T", "r", "u", "e">> >> ELSE <<>>

\* temp_values.extend(c.split("|")) for c in conditional_value
RECURSIVE split_on_pipe(_)
split_on_pipe(conditional_value) ==
    IF conditional_value = <<>> THEN <<>>
    ELSE Split(Head(conditional_value), <<"|">>)
             \o split_on_pipe(Tail(conditional_value))

\* the test function of a string operator
string_test_function(operator, v, c) ==
    CASE operator = "contains" -> Contains(v, c)
      [] operator = "matches" -> v = c
      [] operator = "startswith" -> StartsWith(v, c)
      [] operator = "endswith" -> EndsWith(v, c)

\* string_test: some v of vals passes the test with some c
string_match(operator, vals, conditional_value) ==
    \E c \in DOMAIN conditional_value : \E v \in DOMAIN vals :
        string_test_function(operator, vals[v], conditional_value[c])

\* the test function of a comparison operator on two numbers
comparison_test_function(operator, v, c) ==
    CASE operator = "<" -> v < c
      [] operator = "<=" -> v <= c
      [] operator = ">" -> v > c
      [] operator = ">=" -> v >= c

\* any(test_function(float(v), float(conditional_value[0])) for v in vals)
\* from val i on: a conversion that fails raises ValueError, and the first
\* val that passes ends the iteration
RECURSIVE comparison_any(_, _, _, _)
comparison_any(operator, vals, i, c) ==
    IF i > Len(vals) THEN ValOk(FALSE)
    ELSE IF StrToFloat(vals[i]) = None \/ StrToFloat(c) = None
    THEN ValRaise("ValueError")
    ELSE IF comparison_test_function(operator, StrToFloat(vals[i])[1],
                                     StrToFloat(c)[1])
    THEN ValOk(TRUE)
    ELSE comparison_any(operator, vals, i + 1, c)

\* comparison_test: exactly one conditional value, and ValueError is raised
\* again as SyntaxError
comparison_test(operator, negation, vals, conditional_value) ==
    IF Len(conditional_value) # 1 THEN ValRaise("SyntaxError")
    ELSE LET match == comparison_any(operator, vals, 1, conditional_value[1])
         IN IF match.st # "ok" THEN ValRaise("SyntaxError")
            ELSE ValOk(truth(match.val, negation))

\* vals after the conditional step when the test takes no account of not
conditional_test_no_negation(operator, negation, vals, conditional_value) ==
    CASE operator \in StringOperators ->
            ValOk(truth_ignoring_negation(
                      string_match(operator, vals,
                                   split_on_pipe(conditional_value)),
                      negation))
      [] operator = "==" ->
            ValOk(truth_ignoring_negation(
                      Sorted(vals) = Sorted(conditional_value), negation))
      [] operator = "!=" ->
            ValOk(truth_ignoring_negation(
                      Sorted(vals) # Sorted(conditional_value), negation))
      [] operator \in ComparisonOperators ->
            comparison_test(operator, FALSE, vals, conditional_value)

\* vals after the conditional step
conditional_test(operator, negation, vals, conditional_value) ==
    CASE operator \in StringOperators ->
            ValOk(truth(string_match(operator, vals,
                                     split_on_pipe(conditional_value)),
                        negation))
      [] operator = "==" ->
            ValOk(truth(Sorted(vals) = Sorted(conditional_value), negation))
      [] operator = "!=" ->
            ValOk(truth(Sorted(vals) # Sorted(conditional_value), negation))
      [] operator \in ComparisonOperators ->
            comparison_test(operator, negation, vals, conditional_value)

\* the conditional step; v is the outcome of find/replace and
\* conditional_value the rendered comparands
conditioned(t, v, conditional_value) ==
    IF v.st # "ok" \/ t.conditional = None THEN v
    ELSE conditional_test(t.conditional[1].operator,
                          t.conditional[1].negation, v.val,
                          conditional_value)

----------------------------------------------------------------------------
(* MTLParser._render_statement and MTLParser._render_template_string *)

\* the outcome of a call: st is "ok" or the exception raised; vars and log
\* are self.variables and the lookups after the call
Ok(val, vs, lg) == [st |-> "ok", val |-> val, vars |-> vs, log |-> lg]
Raise(e, vs, lg) == [st |-> e, val |-> <<>>, vars |-> vs, log |-> lg]

\* self.variables[name] = val[0]: only the first value is kept
AssignFirstOnly(vs, name, val) ==
    [n \in DOMAIN vs \cup {name} |->
        IF n = name THEN (IF val = <<>> THEN <<>> ELSE <<val[1]>>) ELSE vs[n]]

\* self.variables[name] = val
Assign(vs, name, val) ==
    [n \in DOMAIN vs \cup {name} |-> IF n = name THEN val ELSE vs[n]]

\* an empty value list with no pre and post text gives no piece at all
RenderedCollapsing(pre, vals, post) ==
    IF vals # <<>> THEN [i \in DOMAIN vals |-> pre \o vals[i] \o post]
    ELSE IF pre \o post # <<>> THEN <<pre \o post>>
    ELSE <<>>

\* rendered = [pre + str(val) + post for val in vals] if vals else [pre + post]
Rendered(pre, vals, post) ==
    IF vals # <<>> THEN [i \in DOMAIN vals |-> pre \o vals[i] \o post]
    ELSE <<pre \o post>>

\* for res in results: for ren in rendered (the loops the other way round)
ProductResultsOuter(results_, rendered) ==
    [k \in 1..(Len(results_) * Len(rendered)) |->
        results_[((k - 1) \div Len(rendered)) + 1]
            \o rendered[((k - 1) % Len(rendered)) + 1]]

\* pairs results[i] with rendered[i] only (no nested loop)
ProductZip(results_, rendered) ==
    [k \in 1..(IF Len(results_) < Len(rendered) THEN Len(results_)
               ELSE Len(rendered)) |-> results_[k] \o rendered[k]]

\* for ren in rendered: for res in results: results_new.append(res + ren)
Product(results_, rendered) ==
    [k \in 1..(Len(rendered) * Len(results_)) |->
        results_[((k - 1) % Len(results_)) + 1]
            \o rendered[((k - 1) \div Len(results_)) + 1]]

\* the accumulator taken as it is, without the or [""]
ResultsUnchanged(results_) == results_

\* results = results or [""]
ResultsOrEmptyString(results_) ==
    IF results_ = <<>> THEN << <<>> >> ELSE results_

\* rendered_strings = [self.sanitize(v) for v in rendered_strings]
Sanitized(strs) ==
    IF cfg.sanitize # None THEN [i \in DOMAIN strs |-> SanitizeHook(strs[i])]
    ELSE strs

\* the hook is called on every entry of vals, the None entries included:
\* v.translate raises AttributeError when v is None
sanitize_value_raises(vals) ==
    /\ vals # None /\ vals[1] # <<>>
    /\ cfg.sanitize_value = Some("translate")
    /\ \E i \in DOMAIN vals[1] : vals[1][i] = None

\* vals = [self.sanitize_value(v) for v in vals], when vals is a non-empty
\* list and a hook is set; the hook is called on every entry, and str(None)
\* is the text None
SanitizedValues(vals) ==
    IF vals # None /\ vals[1] # <<>> /\ cfg.sanitize_value # None
    THEN Some([i \in DOMAIN vals[1] |->
                 IF vals[1][i] = None THEN Some(<<"N", "o", "n", "e">>)
                 ELSE Some(SanitizeHook(vals[1][i][1]))])
    ELSE vals

\* An expression carries the attributes of the grammar's Template rule:
\* delim, field, subfield, fieldarg, filter, findreplace, conditional, bool,
\* combine and default, each None when absent.  A clause (bool, combine,
\* default) is Some([value |-> v]) with v None or Some(statement); a delim
\* is Some([value |-> v]) with v None or Some(str); a filter is
\* Some([value |-> filters]); a findreplace is Some([pairs |-> pairs]); a
\* conditional is Some([negation, operator, value]) with value None or
\* Some(statements).

RECURSIVE _render_statement(_, _, _, _)
RECURSIVE _render_template_string(_, _, _, _, _)
RECURSIVE render_loop(_, _, _, _, _, _)
RECURSIVE render_next(_, _, _, _)

\* self._render_statement(clause.value, field_arg)
\*     if clause.value is not None else [""]
render_clause(clause, field_arg, vs, lg) ==
    IF clause[1].value # None
    THEN _render_statement(clause[1].value[1], field_arg, vs, lg)
    ELSE Ok(<< <<>> >>, vs, lg)

\* the branch on field of _render_template_string:
\* a variable reference, a variable assignment or a provider lookup
resolve_field(t, field_arg, default, vs, lg) ==
    IF t.field # <<>> /\ Head(t.field) = "%" THEN
        LET name == Tail(t.field) IN
        IF name \notin DOMAIN vs
        THEN [st |-> "SyntaxError", vals |-> None, default |-> default,
              vars |-> vs, log |-> lg]
        ELSE [st |-> "ok",
              vals |-> Some([i \in DOMAIN vs[name] |-> Some(vs[name][i])]),
              default |-> default, vars |-> vs, log |-> lg]
    ELSE IF t.field = f_var THEN
        IF t.subfield = None \/ t.subfield = Some(<<>>) \/ default = <<>>
        THEN [st |-> "SyntaxError", vals |-> None, default |-> default,
              vars |-> vs, log |-> lg]
        ELSE LET kept == NonEmpty(default) IN
             [st |-> "ok", vals |-> Some(<<>>), default |-> kept,
              vars |-> Assign(vs, t.subfield[1], kept), log |-> lg]
    ELSE
        LET got == get_field_values(t.field, t.subfield, field_arg, default,
                                    vs)
        IN [st |-> IF IsRaised(got.ret) THEN got.ret[2] ELSE "ok",
            vals |-> got.ret, default |-> default, vars |-> vs,
            log |-> Append(lg, [field |-> t.field, calls |-> got.calls,
                                ret |-> got.ret])]

\* the bool / default / none_str step with the placeholder also given to an
\* expression with a bool clause that has no value and no default
select_values_placeholder(t, vals, is_bool, bool_val, default) ==
    IF is_bool /\ vals # <<>> THEN bool_val
    ELSE IF vals = <<>> /\ t.field # f_var
    THEN (IF default # <<>> THEN default ELSE <<cfg.none_str>>)
    ELSE vals

\* the bool / default / none_str step with the placeholder given whether or
\* not the expression has a default
select_values_ignoring_default(t, vals, is_bool, bool_val, default) ==
    IF is_bool THEN (IF vals # <<>> THEN bool_val ELSE default)
    ELSE IF vals = <<>> /\ t.field # f_var THEN <<cfg.none_str>>
    ELSE vals

\* vals after the bool / default / none_str step
select_values(t, vals, is_bool, bool_val, default) ==
    IF is_bool THEN (IF vals # <<>> THEN bool_val ELSE default)
    ELSE IF vals = <<>> /\ t.field # f_var
    THEN (IF default # <<>> THEN default ELSE <<cfg.none_str>>)
    ELSE vals

\* the outcome of _render_template_string: results is the new accumulator,
\* vals and rendered are the locals of that name when the cartesian loop
\* runs, and v is vals as it was before the bool / default / none_str step
TsOk(results_, v, vals, rendered, vs, lg) ==
    [st |-> "ok", results |-> results_, v |-> v, vals |-> vals,
     rendered |-> rendered, vars |-> vs, log |-> lg]
TsRaise(e, vs, lg) ==
    [st |-> e, results |-> <<>>, v |-> <<>>, vals |-> <<>>,
     rendered |-> <<>>, vars |-> vs, log |-> lg]

\* a clause rendered after the clauses before it: prev is the outcome so far
\* (an exception raised by an earlier clause propagates); an absent clause
\* gives [] and changes nothing
clause_after(prev, clause, field_arg) ==
    IF prev.st # "ok" THEN prev
    ELSE IF clause # None
    THEN render_clause(clause, field_arg, prev.vars, prev.log)
    ELSE Ok(<<>>, prev.vars, prev.log)

\* vals = [val for val in vals if val is not None], [] when vals is None
without_none(vals) == IF vals = None THEN <<>> ELSE StripNone(vals[1])

\* the join without its guard: [sep.join(vals)] also for an empty list
joined_empty_string(vals, delim) ==
    IF cfg.expand_inplace \/ delim # None
    THEN <<Join(IF delim # None THEN delim[1] ELSE cfg.inplace_sep, vals)>>
    ELSE vals

\* vals = [sep.join(vals)] if vals else [], when expand_inplace is set or
\* the expression has a delim; sep is the delim, else inplace_sep
joined(vals, delim) ==
    IF cfg.expand_inplace \/ delim # None
    THEN (IF vals # <<>>
          THEN <<Join(IF delim # None THEN delim[1] ELSE cfg.inplace_sep,
                      vals)>>
          ELSE <<>>)
    ELSE vals

\* vals.extend(val for val in combine_val if val)
combined(vals, is_combine, combine_val) ==
    IF is_combine /\ combine_val # <<>> THEN vals \o NonEmpty(combine_val)
    ELSE vals

\* conditional_value += self._render_statement(cv) for the comparands from
\* comparand i on; prev is the outcome so far
RECURSIVE conditional_values_from(_, _, _)
conditional_values_from(prev, value, i) ==
    IF prev.st # "ok" \/ i > Len(value) THEN prev
    ELSE LET r == _render_statement(value[i], None, prev.vars, prev.log) IN
         IF r.st # "ok" THEN r
         ELSE conditional_values_from(Ok(prev.val \o r.val, r.vars, r.log),
                                      value, i + 1)

\* conditional_value with the variables of each rendered comparand expanded
conditional_after_expanding(prev, conditional) ==
    IF prev.st # "ok" THEN prev
    ELSE IF conditional = None THEN Ok(<<>>, prev.vars, prev.log)
    ELSE IF conditional[1].value = None
    THEN Ok(<< <<>> >>, prev.vars, prev.log)
    ELSE LET r == conditional_values_from(Ok(<<>>, prev.vars, prev.log),
                                          conditional[1].value[1], 1)
         IN IF r.st # "ok" THEN r
            ELSE Ok([i \in DOMAIN r.val |->
                        expand_variables_to_str(r.val[i], r.vars).val],
                    r.vars, r.log)

\* conditional_value, rendered after the clauses before it
conditional_after(prev, conditional) ==
    IF prev.st # "ok" THEN prev
    ELSE IF conditional = None THEN Ok(<<>>, prev.vars, prev.log)
    ELSE IF conditional[1].value = None
    THEN Ok(<< <<>> >>, prev.vars, prev.log)
    ELSE conditional_values_from(Ok(<<>>, prev.vars, prev.log),
                                 conditional[1].value[1], 1)

\* from the cartesian loop on: vals is final, v is vals as it was before the
\* bool / default / none_str step
rts_product(ts, results_, v, vals, vs, lg) ==
    TsOk(Product(results_, Rendered(ts.pre, vals, ts.post)), v, vals,
         Rendered(ts.pre, vals, ts.post), vs, lg)

\* the bool / default / none_str step: v is vals after the combine step
rts_select(ts, results_, c, f, v) ==
    rts_product(ts, results_, v,
        select_values(ts.template[1], v, ts.template[1].bool # None,
                      c.bool_val, f.default),
        f.vars, f.log)

\* the combine step: v is the outcome of the conditional step
rts_combine(ts, results_, c, f, v) ==
    IF v.st # "ok" THEN TsRaise(v.st, f.vars, f.log)
    ELSE CHOOSE out \in
            {rts_select(ts, results_, c, f, v4) :
                v4 \in {combined(v.val, ts.template[1].combine # None,
                                 c.combine_val)}} : TRUE

\* the conditional step: v is the outcome of find/replace
rts_conditional(ts, results_, c, f, v) ==
    CHOOSE out \in
        {rts_combine(ts, results_, c, f, v3) :
            v3 \in {conditioned(ts.template[1], v, c.conditional_value)}} :
        TRUE

\* the find/replace step: v is the outcome of the filters
rts_find_replace(ts, results_, c, f, v) ==
    CHOOSE out \in
        {rts_conditional(ts, results_, c, f, v2) :
            v2 \in {find_replaced(ts.template[1], v, f.vars)}} : TRUE

\* the filters: vals is the joined list of the field's values
rts_filters(ts, results_, c, f, vals) ==
    CHOOSE out \in
        {rts_find_replace(ts, results_, c, f, v1) :
            v1 \in {filters_from(filters_of(ts.template[1]), 1, ValOk(vals),
                                 f.vars)}} : TRUE

\* an unknown field that is rescued by a default: UnknownFieldError only
\* without a default
rts_values_default_rescues(ts, results_, c, f) ==
    IF f.st # "ok" THEN TsRaise(f.st, f.vars, f.log)
    ELSE IF sanitize_value_raises(f.vals)
    THEN TsRaise("AttributeError", f.vars, f.log)
    ELSE IF SanitizedValues(f.vals) = None /\ ts.template[1].field # <<>>
            /\ f.default = <<>>
    THEN TsRaise("UnknownFieldError", f.vars, f.log)
    ELSE rts_filters(ts, results_, c, f,
             joined(without_none(SanitizedValues(f.vals)), c.delim))

\* an unknown field that is taken as a field without values: never an error
rts_values_none_is_empty(ts, results_, c, f) ==
    IF f.st # "ok" THEN TsRaise(f.st, f.vars, f.log)
    ELSE IF sanitize_value_raises(f.vals)
    THEN TsRaise("AttributeError", f.vars, f.log)
    ELSE rts_filters(ts, results_, c, f,
             joined(without_none(SanitizedValues(f.vals)), c.delim))

\* from the field's values on: f is the outcome of resolve_field, c the
\* delim and the rendered combine, bool, default and conditional values
rts_values(ts, results_, c, f) ==
    IF f.st # "ok" THEN TsRaise(f.st, f.vars, f.log)
    ELSE IF sanitize_value_raises(f.vals)
    THEN TsRaise("AttributeError", f.vars, f.log)
    ELSE IF SanitizedValues(f.vals) = None /\ ts.template[1].field # <<>>
    THEN TsRaise("UnknownFieldError", f.vars, f.log)
    ELSE rts_filters(ts, results_, c, f,
             joined(without_none(SanitizedValues(f.vals)), c.delim))

\* from the field on: last is the outcome of the last clause rendered
rts_field(ts, results_, c, last) ==
    IF last.st # "ok" THEN TsRaise(last.st, last.vars, last.log)
    ELSE CHOOSE out \in
            {rts_values(ts, results_, c, f) :
                f \in {resolve_field(ts.template[1], ts.template[1].fieldarg,
                                     c.default, last.vars, last.log)}} : TRUE

\* the conditional values, rendered after combine (c1), bool (c2) and
\* default (c3)
rts_conditional_values(ts, results_, d, c1, c2, c3) ==
    CHOOSE out \in
        {rts_field(ts, results_, c, c4) :
            c4 \in {conditional_after(c3, ts.template[1].conditional)},
            c \in {[delim |-> d.val, combine_val |-> c1.val,
                    bool_val |-> c2.val, default |-> c3.val,
                    conditional_value |->
                        conditional_after(
                            c3, ts.template[1].conditional).val]}} : TRUE

\* the default clause, rendered after combine (c1) and bool (c2)
rts_default(ts, results_, d, c1, c2) ==
    CHOOSE out \in
        {rts_conditional_values(ts, results_, d, c1, c2, c3) :
            c3 \in {clause_after(c2, ts.template[1].default,
                                 ts.template[1].fieldarg)}} : TRUE

\* the bool clause rendered after the default clause instead of before it
rts_bool_after_default(ts, results_, d, c1) ==
    LET c3 == clause_after(c1, ts.template[1].default, ts.template[1].fieldarg)
        c2 == clause_after(c3, ts.template[1].bool, ts.template[1].fieldarg)
    IN rts_conditional_values(ts, results_, d, c1, c2,
           IF c2.st # "ok" THEN c2 ELSE [c2 EXCEPT !.val = c3.val])

\* the bool clause, rendered after combine (c1)
rts_bool(ts, results_, d, c1) ==
    CHOOSE out \in
        {rts_default(ts, results_, d, c1, c2) :
            c2 \in {clause_after(c1, ts.template[1].bool,
                                 ts.template[1].fieldarg)}} : TRUE

\* a template_string with a template: the delim is expanded, then combine,
\* bool, default and the conditional values are rendered, in this order,
\* then the field.  Each step is written as the one element of a set, which
\* binds its outcome as a value for the steps after it.
rts_template(ts, results_, vs, lg) ==
    CHOOSE out \in
        {IF d.st # "ok" THEN TsRaise(d.st, vs, lg)
         ELSE rts_bool(ts, results_, d, c1) :
            d \in {delim_of(ts.template[1], vs)},
            c1 \in {clause_after(Ok(<<>>, vs, lg), ts.template[1].combine,
                                 ts.template[1].fieldarg)}} : TRUE

_render_template_string(ts, field_arg, results_in, vs, lg) ==
    IF ts.template = None
    THEN TsOk([i \in DOMAIN ResultsOrEmptyString(results_in) |->
                  ResultsOrEmptyString(results_in)[i] \o ts.pre \o ts.post],
              <<>>, <<>>, <<ts.pre \o ts.post>>, vs, lg)
    ELSE rts_template(ts, ResultsOrEmptyString(results_in), vs, lg)

\* the rest of the loop after template_string i gave r
render_next(statement, i, field_arg, r) ==
    IF r.st # "ok" THEN Raise(r.st, r.vars, r.log)
    ELSE render_loop(statement, i + 1, field_arg, r.results, r.vars, r.log)

\* the for loop of _render_statement from template_string i on
render_loop(statement, i, field_arg, results_, vs, lg) ==
    IF i > Len(statement) THEN Ok(results_, vs, lg)
    ELSE CHOOSE out \in
            {render_next(statement, i, field_arg, r) :
                r \in {_render_template_string(statement[i], field_arg,
                                               results_, vs, lg)}} : TRUE

\* the return of _render_statement: r is the outcome of the loop
render_return(r) ==
    IF r.st # "ok" THEN r ELSE Ok(Sanitized(r.val), r.vars, r.log)

_render_statement(statement, field_arg, vs, lg) ==
    CHOOSE out \in
        {render_return(r) :
            r \in {render_loop(statement, 1, field_arg, <<>>, vs, lg)}} : TRUE

----------------------------------------------------------------------------
(* The parsed templates the model renders *)

\* a template expression and its clauses
Expr(field, subfield, bool, combine, default) ==
    [delim |-> None, field |-> field, subfield |-> subfield,
     fieldarg |-> None, filter |-> None, findreplace |-> None,
     conditional |-> None, bool |-> bool, combine |-> combine,
     default |-> default]
Plain(field) == Expr(field, None, None, None, None)
Clause(statement) == Some([value |-> Some(statement)])
EmptyClause == Some([value |-> None])

\* the expression t with a delim, filters, find/replace pairs, a conditional
Delim(t, value) == [t EXCEPT !.delim = Some([value |-> value])]
Filter(t, filters) == [t EXCEPT !.filter = Some([value |-> filters])]
FindReplace(t, pairs) == [t EXCEPT !.findreplace = Some([pairs |-> pairs])]
Cond(t, negation, operator, value) ==
    [t EXCEPT !.conditional = Some([negation |-> negation,
                                    operator |-> operator,
                                    value |-> Some(value)])]

\* a template_string with and without a template expression
TS(pre, t, post) == [pre |-> pre, template |-> Some(t), post |-> post]
Lit(text) == [pre |-> text, template |-> None, post |-> <<>>]

v_x == <<"x">>
v_y == <<"y">>

PunctuationNames ==
    {f_comma, f_semicolon, f_questionmark, f_pipe, f_percent, f_ampersand,
     f_openbrace, f_closebrace, f_openparens, f_closeparens, f_openbracket,
     f_closebracket, f_newline, f_lf, f_cr, f_crlf}

\* "{name}" for every punctuation field name
PunctuationSegments == {TS(<<>>, Plain(f), <<>>) : f \in PunctuationNames}

LiteralSegments == {Lit(<<"a">>), Lit(<<"a", " ", "b">>)}

FieldSegments ==
    {TS(<<>>, Plain(f_name), <<>>),                          \* {name}
     TS(<<>>, Plain(f_tags), <<>>),                          \* {tags}
     TS(<<"a">>, Plain(f_tags), <<"b">>),                    \* a{tags}b
     TS(<<>>, Plain(f_empty), <<>>),                         \* {empty}
     TS(<<>>, Plain(f_nul), <<>>),                           \* {nul}
     TS(<<>>, Plain(f_nosuch), <<>>),                        \* {nosuch}
     TS(<<>>, Plain(f_strip), <<>>),                         \* {strip}
     \* {empty,d}
     TS(<<>>, Expr(f_empty, None, None, None,
                   Clause(<<Lit(<<"d">>)>>)), <<>>),
     \* {empty,{tags}}
     TS(<<>>, Expr(f_empty, None, None, None,
                   Clause(<<TS(<<>>, Plain(f_tags), <<>>)>>)), <<>>),
     \* {nosuch,f}
     TS(<<>>, Expr(f_nosuch, None, None, None,
                   Clause(<<Lit(<<"f">>)>>)), <<>>),
     \* {tags,{nosuch}}
     TS(<<>>, Expr(f_tags, None, None, None,
                   Clause(<<TS(<<>>, Plain(f_nosuch), <<>>)>>)), <<>>),
     \* {strip, h }
     TS(<<>>, Expr(f_strip, None, None, None,
                   Clause(<<Lit(<<" ", "h", " ">>)>>)), <<>>),
     \* {name&{tags}}
     TS(<<>>, Expr(f_name, None, None,
                   Clause(<<TS(<<>>, Plain(f_tags), <<>>)>>), None), <<>>),
     \* {empty?t}
     TS(<<>>, Expr(f_empty, None, Clause(<<Lit(<<"t">>)>>), None, None),
        <<>>),
     \* a{empty?t}b
     TS(<<"a">>, Expr(f_empty, None, Clause(<<Lit(<<"t">>)>>), None, None),
        <<"b">>),
     \* {name?t,f}
     TS(<<>>, Expr(f_name, None, Clause(<<Lit(<<"t">>)>>), None,
                   Clause(<<Lit(<<"f">>)>>)), <<>>)}

VariableSegments ==
    {\* {var:x,h}
     TS(<<>>, Expr(f_var, Some(v_x), None, None,
                   Clause(<<Lit(<<"h">>)>>)), <<>>),
     \* a{var:x,h}b
     TS(<<"a">>, Expr(f_var, Some(v_x), None, None,
                      Clause(<<Lit(<<"h">>)>>)), <<"b">>),
     \* {var:x,{tags}}
     TS(<<>>, Expr(f_var, Some(v_x), None, None,
                   Clause(<<TS(<<>>, Plain(f_tags), <<>>)>>)), <<>>),
     \* {var:x}
     TS(<<>>, Expr(f_var, Some(v_x), None, None, None), <<>>),
     \* {var:x,}
     TS(<<>>, Expr(f_var, Some(v_x), None, None, EmptyClause), <<>>),
     \* {var:y,{%x}}
     TS(<<>>, Expr(f_var, Some(v_y), None, None,
                   Clause(<<TS(<<>>, Plain(<<"%">> \o v_x), <<>>)>>)), <<>>),
     \* {%x}
     TS(<<>>, Plain(<<"%">> \o v_x), <<>>),
     \* a{%x}b
     TS(<<"a">>, Plain(<<"%">> \o v_x), <<"b">>),
     \* {%y}
     TS(<<>>, Plain(<<"%">> \o v_y), <<>>),
     \* {empty,{var:x,z}}
     TS(<<>>, Expr(f_empty, None, None, None,
                   Clause(<<TS(<<>>, Expr(f_var, Some(v_x), None, None,
                                          Clause(<<Lit(<<"z">>)>>)), <<>>)>>)),
        <<>>),
     \* {nosuch,{%x}}
     TS(<<>>, Expr(f_nosuch, None, None, None,
                   Clause(<<TS(<<>>, Plain(<<"%">> \o v_x), <<>>)>>)), <<>>)}

\* a comparand that is literal text, and the statement of one field
Text1(text) == <<Lit(text)>>
Field1(field) == <<TS(<<>>, Plain(field), <<>>)>>

v_ext == <<"e", "x", "t">>
t_jpg == <<"j", "p", "g">>
t_yes == <<"y", "e", "s">>
t_no == <<"n", "o">>
t_big == <<"b", "i", "g">>
t_small == <<"s", "m", "a", "l", "l">>

\* the text %name outside braces: the grammar reads it as literal text of
\* the comparand, a reference to a variable being the field of a template
\* expression "{%name}"
BareReference(name) == Text1(<<"%">> \o name)

\* expressions with a conditional and nothing else
ConditionalSegments ==
    {\* {tags contains r} and {tags not contains r}
     TS(<<>>, Cond(Plain(f_tags), FALSE, "contains", <<Text1(<<"r">>)>>),
        <<>>),
     TS(<<>>, Cond(Plain(f_tags), TRUE, "contains", <<Text1(<<"r">>)>>),
        <<>>),
     \* {tags matches x|g}
     TS(<<>>, Cond(Plain(f_tags), FALSE, "matches",
                   <<Text1(<<"x", "|", "g">>)>>), <<>>),
     \* {filepath.name startswith q}
     TS(<<>>, Cond(Plain(f_filepath_name), FALSE, "startswith",
                   <<Text1(<<"q">>)>>), <<>>),
     \* {filepath.name not endswith jpg}
     TS(<<>>, Cond(Plain(f_filepath_name), TRUE, "endswith",
                   <<Text1(t_jpg)>>), <<>>),
     \* {tags == g,r}
     TS(<<>>, Cond(Plain(f_tags), FALSE, "==",
                   <<Text1(<<"g">>), Text1(<<"r">>)>>), <<>>),
     \* {tags != r}
     TS(<<>>, Cond(Plain(f_tags), FALSE, "!=", <<Text1(<<"r">>)>>), <<>>),
     \* {size < 20}
     TS(<<>>, Cond(Plain(f_size), FALSE, "<", <<Text1(<<"2", "0">>)>>),
        <<>>),
     \* {size not >= 12}
     TS(<<>>, Cond(Plain(f_size), TRUE, ">=", <<Text1(<<"1", "2">>)>>),
        <<>>),
     \* {size <= 5}
     TS(<<>>, Cond(Plain(f_size), FALSE, "<=", <<Text1(<<"5">>)>>), <<>>),
     \* {size > x}
     TS(<<>>, Cond(Plain(f_size), FALSE, ">", <<Text1(<<"x">>)>>), <<>>),
     \* {size < 1,2}
     TS(<<>>, Cond(Plain(f_size), FALSE, "<",
                   <<Text1(<<"1">>), Text1(<<"2">>)>>), <<>>),
     \* {empty contains x} and {empty not contains x}
     TS(<<>>, Cond(Plain(f_empty), FALSE, "contains", <<Text1(<<"x">>)>>),
        <<>>),
     TS(<<>>, Cond(Plain(f_empty), TRUE, "contains", <<Text1(<<"x">>)>>),
        <<>>),
     \* {var:x,h not contains h}
     TS(<<>>, Cond(Expr(f_var, Some(v_x), None, None,
                        Clause(Text1(<<"h">>))),
                   TRUE, "contains", <<Text1(<<"h">>)>>), <<>>)}

\* expressions with a bool clause
BoolSegments ==
    {\* {size > 10?big,small} and {size < 10?big,small}
     TS(<<>>, Cond(Expr(f_size, None, Clause(Text1(t_big)), None,
                        Clause(Text1(t_small))),
                   FALSE, ">", <<Text1(<<"1", "0">>)>>), <<>>),
     TS(<<>>, Cond(Expr(f_size, None, Clause(Text1(t_big)), None,
                        Clause(Text1(t_small))),
                   FALSE, "<", <<Text1(<<"1", "0">>)>>), <<>>),
     \* {size < 10?big}
     TS(<<>>, Cond(Expr(f_size, None, Clause(Text1(t_big)), None, None),
                   FALSE, "<", <<Text1(<<"1", "0">>)>>), <<>>),
     \* {tags?t,f}
     TS(<<>>, Expr(f_tags, None, Clause(Text1(<<"t">>)), None,
                   Clause(Text1(<<"f">>))), <<>>),
     \* {empty?t,f}
     TS(<<>>, Expr(f_empty, None, Clause(Text1(<<"t">>)), None,
                   Clause(Text1(<<"f">>))), <<>>),
     \* {nul?t}
     TS(<<>>, Expr(f_nul, None, Clause(Text1(<<"t">>)), None, None), <<>>),
     \* {empty&{name}?{tags},d}
     TS(<<>>, Expr(f_empty, None, Clause(Field1(f_tags)),
                   Clause(Field1(f_name)), Clause(Text1(<<"d">>))), <<>>)}

\* expressions on a field that is claimed and has no values
EmptySegments ==
    {TS(<<>>, Plain(f_empty), <<>>),                         \* {empty}
     TS(<<>>, Plain(f_nul), <<>>),                           \* {nul}
     \* {empty,d}
     TS(<<>>, Expr(f_empty, None, None, None, Clause(Text1(<<"d">>))),
        <<>>),
     \* {nul,{tags}}
     TS(<<>>, Expr(f_nul, None, None, None, Clause(Field1(f_tags))), <<>>),
     \* {empty|append(x)}
     TS(<<>>, Filter(Plain(f_empty),
                     <<FilterName.append \o <<"(", "x", ")">> >>), <<>>),
     \* {empty|upper,d}
     TS(<<>>, Filter(Expr(f_empty, None, None, None,
                          Clause(Text1(<<"d">>))),
                     <<FilterName.upper>>), <<>>),
     \* {empty&{name}}
     TS(<<>>, Expr(f_empty, None, None, Clause(Field1(f_name)), None),
        <<>>),
     \* {empty,{nosuch}}
     TS(<<>>, Expr(f_empty, None, None, None, Clause(Field1(f_nosuch))),
        <<>>)}

\* {var:ext,jpg}
AssignExt ==
    TS(<<>>, Expr(f_var, Some(v_ext), None, None, Clause(Text1(t_jpg))),
       <<>>)

\* {filepath.name endswith %ext?yes,no}
EndsWithBareExt ==
    TS(<<>>, Cond(Expr(f_filepath_name, None, Clause(Text1(t_yes)), None,
                       Clause(Text1(t_no))),
                  FALSE, "endswith", <<BareReference(v_ext)>>), <<>>)

\* {filepath.name endswith {%ext}?yes,no}
EndsWithBracedExt ==
    TS(<<>>, Cond(Expr(f_filepath_name, None, Clause(Text1(t_yes)), None,
                       Clause(Text1(t_no))),
                  FALSE, "endswith", <<Field1(<<"%">> \o v_ext)>>), <<>>)

\* a variable used as a comparand
ComparandSegments == {AssignExt, EndsWithBareExt, EndsWithBracedExt}

\* {field|filter}
Filtered1(field, filter_) == TS(<<>>, Filter(Plain(field), <<filter_>>), <<>>)

\* the filters the catalog marks as requiring an argument
RequiredArgumentFilters ==
    {FilterName.split, FilterName.chop, FilterName.chomp, FilterName.append,
     FilterName.prepend, FilterName.appends, FilterName.prepends,
     FilterName.remove, FilterName.slice, FilterName.sslice}

\* {tags|F} and {tags|F()} for each of them, and {empty|F}
MissingArgumentSegments ==
    {Filtered1(f_tags, name \o parens) :
        name \in RequiredArgumentFilters, parens \in {<<>>, <<"(", ")">>}}
    \cup {Filtered1(f_empty, name) : name \in RequiredArgumentFilters}

\* {format:TYPE:FORMAT,{field}}
Format1(subfield, field) ==
    TS(<<>>, Expr(f_format, Some(subfield), None, None,
                  Clause(Field1(field))), <<>>)

\* filters with an argument, format expressions and unknown names
ArgumentSegments ==
    {Filtered1(f_tags, FilterName.append \o <<"(", "x", ")">>),
     Filtered1(f_tags, FilterName.appends \o <<"(", "x", ")">>),
     Filtered1(f_tags, FilterName.chop \o <<"(", "x", ")">>),
     Filtered1(f_tags, FilterName.slice \o <<"(", "1", ":", ")">>),
     Filtered1(f_tags, FilterName.slice \o <<"(", "x", ")">>),
     Filtered1(f_tags, FilterName.slice \o <<"(", ":", ":", "0", ")">>),
     Filtered1(f_tags,
               FilterName.slice \o <<"(", "1", ":", "2", ":", "3", ":", "4",
                                      ")">>),
     Filtered1(f_filepath_name,
               FilterName.sslice \o <<"(", "-", "3", ":", ")">>),
     Filtered1(f_filepath_name, FilterName.sslice \o <<"(", "x", ":", ")">>),
     Filtered1(f_tags, <<"n", "o", "s", "u", "c", "h">>),
     TS(<<>>, Plain(f_nosuch), <<>>),
     \* {format:int:03d,{size}}, {format:int:03d,{name}}
     Format1(<<"i", "n", "t", ":", "0", "3", "d">>, f_size),
     Format1(<<"i", "n", "t", ":", "0", "3", "d">>, f_name),
     \* {format:float:,{size}}, {format:float:,{name}}
     Format1(<<"f", "l", "o", "a", "t", ":">>, f_size),
     Format1(<<"f", "l", "o", "a", "t", ":">>, f_name),
     \* {format:int:s,{size}}, {format:bool:d,{size}}
     Format1(<<"i", "n", "t", ":", "s">>, f_size),
     Format1(<<"b", "o", "o", "l", ":", "d">>, f_size)}

\* a variable of one value, of two values and of no value:
\* {var:x,d}, {var:m,{tags}} and {var:z,}
v_m == <<"m">>
v_z == <<"z">>
AssignOne ==
    TS(<<>>, Expr(f_var, Some(v_x), None, None, Clause(Text1(<<"d">>))),
       <<>>)
AssignTwo ==
    TS(<<>>, Expr(f_var, Some(v_m), None, None, Clause(Field1(f_tags))),
       <<>>)
AssignNone == TS(<<>>, Expr(f_var, Some(v_z), None, None, EmptyClause), <<>>)

\* the strings that refer to these variables at their start, after other
\* text, twice, and not at all (%%x)
ReferringStrings ==
    {<<"%", "x">>, <<"-", "%", "x">>, <<"%", "x", "-", "%", "x">>,
     <<"%", "%", "x">>, <<"%", "z">>, <<"%", "m">>, <<"-", "%", "m">>}
ReferringFormats ==
    {<<"%", "x">>, <<"0", "3", "%", "x">>, <<"%", "z">>, <<"%", "m">>}

\* the string s used as a delim, {s+tags}, as a filter argument,
\* {tags|appends(s)}, as a replacement, {tags[r,s]}, and as a format string,
\* {format:int:s,{size}}
StringUse(context, s) ==
    CASE context = "delim" -> TS(<<>>, Delim(Plain(f_tags), Some(s)), <<>>)
      [] context = "argument" ->
            Filtered1(f_tags, FilterName.appends \o <<"(">> \o s \o <<")">>)
      [] context = "replace" ->
            TS(<<>>, FindReplace(Plain(f_tags),
                         <<[find |-> Some(<<"r">>), replace |-> Some(s)]>>),
               <<>>)
      [] context = "format" ->
            Format1(<<"i", "n", "t", ":">> \o s, f_size)

StringUses ==
    {[context |-> c, s |-> s] :
        c \in {"delim", "argument", "replace"}, s \in ReferringStrings}
    \cup {[context |-> "format", s |-> s] : s \in ReferringFormats}

StringSegments ==
    {AssignOne, AssignTwo, AssignNone}
    \cup {StringUse(u.context, u.s) : u \in StringUses}

\* MTLParser(get_field_values, expand_inplace=True) and
\* MTLParser(get_field_values, expand_inplace=True, inplace_sep=";")
InplaceConfig == [DefaultConfig EXCEPT !.expand_inplace = TRUE]
InplaceSemicolonConfig == [InplaceConfig EXCEPT !.inplace_sep = <<";">>]

\* {+field} and {-+field}: the empty delim and the delim "-"
Joined1(field, delim) == TS(<<>>, Delim(Plain(field), delim), <<>>)

\* expressions with and without a delim, on fields of two values, one value
\* and no value
DelimSegments ==
    {Joined1(field, delim) :
        field \in {f_tags, f_empty, f_name, f_nul},
        delim \in {None, Some(<<"-">>)}}
    \cup {TS(<<>>, Plain(field), <<>>) : field \in {f_tags, f_empty, f_name}}
    \cup {\* {+empty,d} and {empty,d}
          TS(<<>>, Delim(Expr(f_empty, None, None, None,
                              Clause(Text1(<<"d">>))), None), <<>>),
          TS(<<>>, Expr(f_empty, None, None, None, Clause(Text1(<<"d">>))),
             <<>>),
          \* {-+empty,{tags}}
          TS(<<>>, Delim(Expr(f_empty, None, None, None,
                              Clause(Field1(f_tags))), Some(<<"-">>)), <<>>),
          \* {+nosuch}
          Joined1(f_nosuch, None)}

\* {field OP comparands} and {field|filter OP comparands}
Compared1(field, filters, operator, value) ==
    TS(<<>>, Cond(IF filters = <<>> THEN Plain(field)
                  ELSE Filter(Plain(field), filters),
                  FALSE, operator, value), <<>>)

\* the comparison operators on the value lists [12], [], [12, x] and
\* [x, 12], with the comparands 10, x and the two comparands 1,2
ComparisonSegments ==
    {Compared1(base.field, base.filters, operator, value) :
        base \in {[field |-> f_size, filters |-> <<>>],
                  [field |-> f_empty, filters |-> <<>>],
                  [field |-> f_size,
                   filters |-> <<FilterName.append \o <<"(", "x", ")">> >>],
                  [field |-> f_size,
                   filters |-> <<FilterName.prepend \o <<"(", "x", ")">> >>]},
        operator \in ComparisonOperators,
        value \in {<<Text1(<<"1", "0">>)>>, <<Text1(<<"x">>)>>,
                   <<Text1(<<"1">>), Text1(<<"2">>)>>}}

\* the template_strings a statement of the model is made of
Segments ==
    LiteralSegments \cup FieldSegments \cup VariableSegments
        \cup {TS(<<>>, Plain(f_comma), <<>>)}

----------------------------------------------------------------------------
(* MTLParser: construction and render *)

NoVariables == [n \in {} |-> <<>>]

\* the command line program has not been invoked
NotInvoked == [pc |-> "none"]

\* expand_variables is not being called
NotExpanding == [pc |-> "none"]

\* MTLParserModel after MTLParser.__init__ has called MTLParserModel(): the
\* one object is cls.instance and holds the metamodel, loaded once
Loaded ==
    [instance |-> <<1>>, objects |-> <<[metamodel |-> TRUE]>>, loads |-> 1]

\* no thread is calling MTLParserModel()
NoThreads == <<>>

\* the state after MTLParser(get_field_values)
Init ==
    /\ pc = "idle"
    /\ cli = NotInvoked
    /\ expanding = NotExpanding
    /\ parser_model = Loaded
    /\ threads = NoThreads
    /\ cfg = DefaultConfig
    /\ ext \in Providers
    /\ variables = NoVariables
    /\ template = <<>>
    /\ results = <<>>
    /\ segs = <<>>
    /\ log = <<>>
    /\ stale = FALSE
    /\ ret = [st |-> "none", val |-> <<>>]

\* self.parser.parse(""): the grammar matches nothing and parse gives no model
parse_empty_string == None

\* a render that keeps the bindings of the previous call
KeepVariables == variables
\* self.variables = {} at the start of render
ResetVariables == NoVariables

\* render(template) with a template that is not a str: TypeError is raised
\* before anything is touched
RenderTypeError ==
    /\ pc # "loop"
    /\ pc' = "raised"
    /\ ret' = [st |-> "TypeError", val |-> <<>>]
    /\ template' = <<>> /\ results' = <<>> /\ segs' = <<>> /\ log' = <<>>
    /\ stale' = (variables # NoVariables)
    /\ UNCHANGED <<expanding, parser_model, threads>>
    /\ UNCHANGED <<cli, cfg, ext, variables>>

\* render(template) with a str the grammar rejects: TextXSyntaxError is
\* re-raised as SyntaxError
RenderSyntaxError ==
    /\ pc # "loop"
    /\ variables' = ResetVariables
    /\ pc' = "raised"
    /\ ret' = [st |-> "SyntaxError", val |-> <<>>]
    /\ template' = <<>> /\ results' = <<>> /\ segs' = <<>> /\ log' = <<>>
    /\ stale' = (variables # NoVariables)
    /\ UNCHANGED <<expanding, parser_model, threads>>
    /\ UNCHANGED <<cli, cfg, ext>>

\* render(""): the parse gives no model and render returns []
RenderEmpty ==
    /\ pc # "loop"
    /\ parse_empty_string = None
    /\ variables' = ResetVariables
    /\ pc' = "returned"
    /\ ret' = [st |-> "ok", val |-> <<>>]
    /\ template' = <<>> /\ results' = <<>> /\ segs' = <<>> /\ log' = <<>>
    /\ stale' = (variables # NoVariables)
    /\ UNCHANGED <<expanding, parser_model, threads>>
    /\ UNCHANGED <<cli, cfg, ext>>

\* render(template) with a template of at least one template_string, up to
\* the first iteration of the loop of _render_statement
RenderBegin ==
    /\ pc # "loop"
    /\ variables' = ResetVariables
    /\ pc' = "loop"
    /\ ret' = [st |-> "pending", val |-> <<>>]
    /\ template' = <<>> /\ results' = <<>> /\ segs' = <<>> /\ log' = <<>>
    /\ stale' = (variables # NoVariables)
    /\ UNCHANGED <<expanding, parser_model, threads>>
    /\ UNCHANGED <<cli, cfg, ext>>

\* one iteration of the loop of _render_statement on the next
\* template_string ts of the statement; an exception ends the render call
RenderTemplateString(ts) ==
    /\ pc = "loop"
    /\ Len(template) < MaxSegs
    /\ LET r == _render_template_string(ts, None, results, variables, log) IN
       /\ template' = Append(template, ts)
       /\ variables' = r.vars
       /\ log' = r.log
       /\ IF r.st = "ok"
          THEN /\ results' = r.results
               /\ segs' = Append(segs, [v |-> r.v, vals |-> r.vals,
                                        rendered |-> r.rendered])
               /\ UNCHANGED <<pc, ret>>
          ELSE /\ pc' = "raised"
               /\ ret' = [st |-> r.st, val |-> <<>>]
               /\ UNCHANGED <<results, segs>>
    /\ UNCHANGED <<expanding, parser_model, threads>>
    /\ UNCHANGED <<cli, cfg, ext, stale>>

\* the end of _render_statement: sanitize and return
RenderReturn ==
    /\ pc = "loop"
    /\ Len(template) >= 1
    /\ pc' = "returned"
    /\ ret' = [st |-> "ok", val |-> Sanitized(results)]
    /\ UNCHANGED <<expanding, parser_model, threads>>
    /\ UNCHANGED <<cli, cfg, ext, variables, template, results, segs, log,
                   stale>>

\* render called any number of times on one parser, the statements made of
\* the template_strings in alphabet
NextOver(alphabet) ==
    \/ RenderTypeError
    \/ RenderSyntaxError
    \/ RenderEmpty
    \/ RenderBegin
    \/ \E ts \in alphabet : RenderTemplateString(ts)
    \/ RenderReturn

Next == NextOver(Segments)

Spec == Init /\ [][Next]_vars

\* the same parser rendering statements of punctuation fields and literals
NextPunctuation == NextOver(PunctuationSegments \cup {Lit(<<"a">>)})

SpecPunctuation == Init /\ [][NextPunctuation]_vars

\* the state after MTLParser(get_field_values) with the provider "meta"
InitMeta == Init /\ ext = "meta"

\* the same parser rendering statements with conditionals, bool clauses,
\* fields without values and variables as comparands
NextConditional ==
    NextOver(ConditionalSegments \cup BoolSegments \cup EmptySegments
                 \cup ComparandSegments)

SpecConditional == InitMeta /\ [][NextConditional]_vars

\* the same parser rendering statements with filters and format expressions
NextFilters == NextOver(MissingArgumentSegments \cup ArgumentSegments)

SpecFilters == InitMeta /\ [][NextFilters]_vars

\* the same parser rendering statements that assign variables and refer to
\* them in a delim, a filter argument, a replacement and a format string
NextStrings == NextOver(StringSegments)

SpecStrings == InitMeta /\ [][NextStrings]_vars

\* the state after MTLParser(get_field_values, ...) with the provider "meta"
\* and with or without in-place expansion
InitDelim ==
    /\ pc = "idle"
    /\ cli = NotInvoked
    /\ expanding = NotExpanding
    /\ parser_model = Loaded
    /\ threads = NoThreads
    /\ cfg \in {DefaultConfig, InplaceConfig, InplaceSemicolonConfig}
    /\ ext = "meta"
    /\ variables = NoVariables
    /\ template = <<>>
    /\ results = <<>>
    /\ segs = <<>>
    /\ log = <<>>
    /\ stale = FALSE
    /\ ret = [st |-> "none", val |-> <<>>]

\* such a parser rendering statements of expressions with a delim
NextDelim == NextOver(DelimSegments)

SpecDelim == InitDelim /\ [][NextDelim]_vars

\* MTLParser(get_field_values, sanitize=..., sanitize_value=...)
SanitizeConfigs ==
    {[DefaultConfig EXCEPT !.sanitize = s, !.sanitize_value = v] :
        s \in {None, Some("translate")},
        v \in {None} \cup {Some(h) : h \in SanitizeValueHooks}}

\* text and field values with blanks, at the top of a statement and in the
\* default, bool, combine and comparand clauses of an expression
SanitizeSegments ==
    {Lit(<<"x", " ", "y">>),                                \* x y
     TS(<<>>, Plain(f_title), <<>>),                        \* {title}
     TS(<<>>, Plain(f_nul), <<>>),                          \* {nul}
     TS(<<>>, Plain(f_tags), <<>>),                         \* {tags}
     TS(<<>>, Plain(f_empty), <<>>),                        \* {empty}
     TS(<<>>, Expr(f_empty, None, None, None,
                   Clause(Text1(<<"a", " ", "b">>))), <<>>), \* {empty,a b}
     TS(<<>>, Expr(f_name, None, Clause(Text1(<<"a", " ", "b">>)), None,
                   Clause(Text1(<<"c", " ", "d">>))), <<>>), \* {name?a b,c d}
     TS(<<>>, Expr(f_empty, None, Clause(Text1(<<"a", " ", "b">>)), None,
                   Clause(Text1(<<"c", " ", "d">>))), <<>>), \* {empty?a b,c d}
     TS(<<>>, Expr(f_name, None, None, Clause(Text1(<<"a", " ", "b">>)),
                   None), <<>>),                            \* {name&a b}
     TS(<<>>, Cond(Plain(f_title), FALSE, "==",
                   <<Text1(<<"a", " ", "b">>)>>), <<>>)}     \* {title == a b}

\* the state after MTLParser(get_field_values, ...) with the provider "meta"
\* and with or without the two sanitize hooks
InitSanitize ==
    /\ pc = "idle"
    /\ cli = NotInvoked
    /\ expanding = NotExpanding
    /\ parser_model = Loaded
    /\ threads = NoThreads
    /\ cfg \in SanitizeConfigs
    /\ ext = "meta"
    /\ variables = NoVariables
    /\ template = <<>>
    /\ results = <<>>
    /\ segs = <<>>
    /\ log = <<>>
    /\ stale = FALSE
    /\ ret = [st |-> "none", val |-> <<>>]

\* such a parser rendering statements whose text and values hold blanks
NextSanitize == NextOver(SanitizeSegments)

SpecSanitize == InitSanitize /\ [][NextSanitize]_vars

\* the same parser rendering statements with numeric comparisons
NextComparison == NextOver(ComparisonSegments)

SpecComparison == InitMeta /\ [][NextComparison]_vars

\* {var:x,{%x}c}: x gets its own value followed by the letter c
Extend(c) ==
    <<TS(<<>>, Expr(f_var, Some(v_x), None, None,
                    Clause(<<TS(<<>>, Plain(<<"%">> \o v_x), <<c>>)>>)),
         <<>>)>>

\* {name&{var:x,{%x}c}?{var:x,{%x}b},{var:x,{%x}d} contains {var:x,{%x}e}}
ExtendInEveryClause ==
    TS(<<>>, Cond(Expr(f_name, None, Clause(Extend("b")),
                       Clause(Extend("c")), Clause(Extend("d"))),
                  FALSE, "contains", <<Extend("e")>>), <<>>)

\* {%y,{var:y,x}}: the default assigns the variable the field refers to
AssignInOwnDefault ==
    TS(<<>>, Expr(<<"%">> \o v_y, None, None, None,
                  Clause(<<TS(<<>>, Expr(f_var, Some(v_y), None, None,
                                         Clause(Text1(<<"x">>))), <<>>)>>)),
       <<>>)

\* assignments nested in the clauses of an expression, in selected and
\* unselected branches
EagerSegments ==
    {TS(<<>>, Expr(f_var, Some(v_x), None, None, Clause(Text1(<<"s">>))),
        <<>>),                                              \* {var:x,s}
     ExtendInEveryClause,
     AssignInOwnDefault,
     TS(<<>>, Expr(f_name, None, None, None, Clause(Extend("d"))),
        <<>>),                                              \* {name,{var:x,{%x}d}}
     TS(<<>>, Expr(f_empty, None, Clause(Extend("b")), None,
                   Clause(Text1(<<"f">>))), <<>>),          \* {empty?{var:x,{%x}b},f}
     TS(<<>>, Expr(f_name, None, Clause(Text1(<<"t">>)), None,
                   Clause(Extend("d"))), <<>>),             \* {name?t,{var:x,{%x}d}}
     TS(<<>>, Expr(f_name, None, None, None,
                   Clause(<<TS(<<>>, Expr(f_var, Some(v_y), None, None,
                                          Clause(Text1(<<"a">>))), <<>>)>>)),
        <<>>),                                              \* {name,{var:y,a}}
     TS(<<>>, Expr(f_empty, None,
                   Clause(<<TS(<<>>, Expr(f_var, Some(v_y), None, None,
                                          Clause(Text1(<<"b">>))), <<>>)>>),
                   None, Clause(Text1(<<"f">>))), <<>>),    \* {empty?{var:y,b},f}
     TS(<<>>, Plain(<<"%">> \o v_x), <<>>),                 \* {%x}
     TS(<<>>, Plain(<<"%">> \o v_y), <<>>)}                 \* {%y}

\* the same parser rendering statements with assignments in nested clauses
NextEager == NextOver(EagerSegments)

SpecEager == InitMeta /\ [][NextEager]_vars

----------------------------------------------------------------------------
(* mdinfo.print_templates_for_files and mdinfo.print_templates, called by
   cli in print mode *)

\* the sentinel given as none_str; the time stamp in it is left out
NONE_STR_SENTINEL == <<"_", "_", "X", "Y", "Z", "Z", "Y", "_", "_">>

\* RenderOptions(none_str=NONE_STR_SENTINEL)
SentinelConfig == [DefaultConfig EXCEPT !.none_str = NONE_STR_SENTINEL]

\* the NUL character, written as one element of a str
NUL == "NUL"

\* the -p templates of the model: {filepath.name}, {size}, {tags}, {nosuch}
PrintTemplates ==
    {Field1(f_filepath_name), Field1(f_size), Field1(f_tags),
     Field1(f_nosuch)}

\* the lists of file arguments and of -p templates
FileArguments == UNION {[1..n -> Files] : n \in 1..MaxFiles}
TemplateArguments == UNION {[1..n -> PrintTemplates] : n \in 1..MaxTemplates}

\* for template in templates: rendered_templates.extend(
\* FileTemplate(filepath).render(template, options=options)), from template
\* i on; acc is the outcome so far and an exception ends the loop
RECURSIVE rendered_templates(_, _, _)
rendered_templates_next(templates, i, acc, r) ==
    IF r.st # "ok" THEN ValRaise(r.st)
    ELSE rendered_templates(templates, i + 1, ValOk(acc.val \o r.val))
rendered_templates(templates, i, acc) ==
    IF i > Len(templates) THEN acc
    ELSE CHOOSE out \in
            {rendered_templates_next(templates, i, acc, r) :
                r \in {_render_statement(templates[i], None, NoVariables,
                                         <<>>)}} : TRUE

\* the header of a line
header(filepath, no_filename, path) ==
    IF no_filename THEN <<>>
    ELSE IF path THEN filepath \o <<":", " ">>
    ELSE PathName(filepath) \o <<":", " ">>

\* [str(t).replace(NONE_STR_SENTINEL, undefined or "") for t in ...]
without_sentinel(strs, undefined) ==
    [i \in DOMAIN strs |->
        Replace(strs[i], NONE_STR_SENTINEL, OrEmpty(undefined))]

\* every field separated by a space, whatever --null-separator says
separator_space(null_separator) == <<" ">>

\* separator = "\0" if null_separator else " "
separator(null_separator) == IF null_separator THEN <<NUL>> ELSE <<" ">>

\* what print(f"{header}{separator.join(rendered_templates)}") writes
printed(filepath, strs, args) ==
    header(filepath, args.no_filename, args.path)
        \o Join(separator(args.null_separator),
                without_sentinel(strs, args.undefined))
        \o <<"\n">>

\* cli(...) without --csv and --json, up to the loop of
\* print_templates_for_files; --path is not accepted with --no-filename
CliInvoke(files, templates, no_filename, path, null_separator, undefined) ==
    /\ cli.pc = "none"
    /\ ~(path /\ no_filename)
    /\ cli' = [pc |-> "files", i |-> 1, stdout |-> <<>>, exit_code |-> None,
               args |-> [files |-> files, templates |-> templates,
                         no_filename |-> no_filename, path |-> path,
                         null_separator |-> null_separator,
                         undefined |-> undefined]]
    /\ UNCHANGED <<expanding, parser_model, threads>>
    /\ UNCHANGED <<pc, cfg, ext, variables, template, results, segs, log,
                   stale, ret>>

\* for filepath in filepaths: the next file argument, for which
\* print_templates builds FileTemplate(filepath) and the render options
CliFile ==
    /\ cli.pc = "files"
    /\ cli.i <= Len(cli.args.files)
    /\ ext' = cli.args.files[cli.i]
    /\ cfg' = SentinelConfig
    /\ cli' = [cli EXCEPT !.pc = "file"]
    /\ UNCHANGED <<expanding, parser_model, threads>>
    /\ UNCHANGED <<pc, variables, template, results, segs, log, stale, ret>>

\* print_templates(filepath, ...): the templates are rendered and one line
\* is printed; an exception of a render ends the program with exit code 1
CliPrintTemplates ==
    /\ cli.pc = "file"
    /\ \E r \in {rendered_templates(cli.args.templates, 1, ValOk(<<>>))} :
          IF r.st = "ok"
          THEN cli' = [cli EXCEPT
                          !.pc = "files", !.i = @ + 1,
                          !.stdout = @ \o printed(filepath_of[ext], r.val,
                                                  cli.args)]
          ELSE cli' = [cli EXCEPT !.pc = "failed", !.exit_code = Some(1)]
    /\ UNCHANGED <<expanding, parser_model, threads>>
    /\ UNCHANGED <<pc, cfg, ext, variables, template, results, segs, log,
                   stale, ret>>

\* the loop of print_templates_for_files is over: exit code 0
CliExit ==
    /\ cli.pc = "files"
    /\ cli.i > Len(cli.args.files)
    /\ cli' = [cli EXCEPT !.pc = "done", !.exit_code = Some(0)]
    /\ UNCHANGED <<expanding, parser_model, threads>>
    /\ UNCHANGED <<pc, cfg, ext, variables, template, results, segs, log,
                   stale, ret>>

\* one run of the command line program in print mode; the arguments are
\* drawn only while cli has not been entered
NextCli ==
    \/ /\ cli.pc = "none"
       /\ \E files \in FileArguments, templates \in TemplateArguments,
             no_filename \in BOOLEAN, path \in BOOLEAN,
             null_separator \in BOOLEAN,
             undefined \in {None, Some(<<"?">>)} :
               CliInvoke(files, templates, no_filename, path,
                         null_separator, undefined)
    \/ CliFile
    \/ CliPrintTemplates
    \/ CliExit

\* the process before cli is called: no parser exists yet
InitCli == Init /\ ext = "unclaimed"

SpecCli == InitCli /\ [][NextCli]_vars

----------------------------------------------------------------------------
(* mdinfo.get_field_name and mdinfo.strip_field_name *)

\* the length of the longest prefix of s without sep and without a brace:
\* what ([^:{}]+) or ([^={}]+) takes at the start of s
RECURSIVE name_run(_, _)
name_run(s, sep) ==
    IF s = <<>> \/ Head(s) \in {sep, "{", "}"} THEN 0
    ELSE 1 + name_run(Tail(s), sep)

\* re.match(r"([^:{}]+):\s*", template), and the same with = for sep: None,
\* or group 1 and match.end()
field_name_match(template_, sep) ==
    IF /\ name_run(template_, sep) >= 1
       /\ name_run(template_, sep) < Len(template_)
       /\ template_[name_run(template_, sep) + 1] = sep
    THEN Some([name |-> SubSeq(template_, 1, name_run(template_, sep)),
               end |-> Len(template_)
                       - Len(LStrip(Drop(template_,
                                         name_run(template_, sep) + 1)))])
    ELSE None

\* the text of a template up to its first opening brace
RECURSIVE text_run(_)
text_run(s) ==
    IF s = <<>> \/ Head(s) = "{" THEN <<>>
    ELSE <<Head(s)>> \o text_run(Tail(s))

t_int == <<"i", "n", "t">>

\* the expressions the grammar reads in the templates of the model
parse_expression(body) ==
    CASE body = Braced(f_size) -> Plain(f_size)
      [] body = Braced(f_tags) -> Plain(f_tags)
      [] body = Braced(f_nosuch) -> Plain(f_nosuch)
      [] body = Braced(f_filepath) -> Plain(f_filepath)
      [] body = Braced(f_filepath_name) -> Plain(f_filepath_name)
      [] body = Braced(f_format \o <<":">> \o t_int \o <<",">>
                       \o Braced(f_size))
            -> Expr(f_format, Some(t_int), None, None,
                    Clause(Field1(f_size)))
      [] body = Braced(f_var \o <<":">> \o v_x \o <<",", "d">>)
            -> AssignOne.template[1]

\* self.parser.parse(template): nothing for the empty string, else the text
\* before the first brace as pre and the expression that follows it
parse(template_statement) ==
    IF template_statement = <<>> THEN <<>>
    ELSE IF text_run(template_statement) = template_statement
    THEN <<Lit(template_statement)>>
    ELSE <<TS(text_run(template_statement),
              parse_expression(Drop(template_statement,
                                    Len(text_run(template_statement)))),
              <<>>)>>

\* the name of the first template_string: its field, with :subfield when
\* it has one, or the whole template when it has no field
first_field_name(template_, first) ==
    IF first.template # None /\ first.template[1].field # <<>>
    THEN first.template[1].field
            \o (IF first.template[1].subfield \notin {None, Some(<<>>)}
                THEN <<":">> \o first.template[1].subfield[1] ELSE <<>>)
    ELSE template_

get_field_name(template_) ==
    IF field_name_match(template_, ":") # None
    THEN ValOk(field_name_match(template_, ":")[1].name)
    ELSE IF field_name_match(template_, "=") # None
    THEN ValOk(field_name_match(template_, "=")[1].name)
    ELSE IF parse(template_) # <<>>
    THEN ValOk(first_field_name(template_, parse(template_)[1]))
    ELSE ValRaise("ValueError")

strip_field_name(template_) ==
    IF field_name_match(template_, ":") # None
    THEN Drop(template_, field_name_match(template_, ":")[1].end)
    ELSE IF field_name_match(template_, "=") # None
    THEN Drop(template_, field_name_match(template_, "=")[1].end)
    ELSE template_

\* the -p values the two functions are applied to: a name, a separator with
\* or without blanks after it, and a template, each of them possibly empty
NamePrefixes ==
    {<<>>, <<"n">>, <<"a", " ", "b">>, <<"a", "=", "b">>, <<"a", ":", "b">>}
NameSeparators ==
    {<<>>, <<":">>, <<"=">>, <<":", " ">>, <<"=", " ", " ">>}
TemplateTexts ==
    {<<>>, <<"x">>, Braced(f_size), Braced(f_tags),
     Braced(f_format \o <<":">> \o t_int \o <<",">> \o Braced(f_size))}
NamedTemplates ==
    {name \o sep \o text :
        name \in NamePrefixes, sep \in NameSeparators, text \in TemplateTexts}

\* the CSV and JSON writers call get_field_name(t) and strip_field_name(t)
\* on a -p value
FieldName(template_) ==
    /\ cli.pc = "none"
    /\ cli' = [pc |-> "named", template |-> template_,
               field |-> get_field_name(template_),
               stripped |-> strip_field_name(template_)]
    /\ UNCHANGED <<expanding, parser_model, threads>>
    /\ UNCHANGED <<pc, cfg, ext, variables, template, results, segs, log,
                   stale, ret>>

NextFieldName ==
    /\ cli.pc = "none"
    /\ \E t \in NamedTemplates : FieldName(t)

SpecFieldName == InitCli /\ [][NextFieldName]_vars

----------------------------------------------------------------------------
(* mdinfo.print_templates_to_csv_for_files and mdinfo.print_templates_to_csv,
   called by cli with --csv.  What csv_writer.writerow is given is kept as
   one row, a list of columns. *)

\* the -p values of the CSV runs: {size}, n: {tags}, {nosuch}, n: and the
\* empty string
CsvTemplates ==
    {Braced(f_size), <<"n", ":", " ">> \o Braced(f_tags), Braced(f_nosuch),
     <<"n", ":">>, <<>>}
CsvTemplateArguments ==
    UNION {[1..n -> CsvTemplates] : n \in 1..MaxTemplates}

t_filename == <<"f", "i", "l", "e", "n", "a", "m", "e">>

\* fields = [get_field_name(field) for field in templates], from template i
\* on; an exception ends the comprehension
RECURSIVE field_names(_, _, _)
field_names(templates, i, acc) ==
    IF i > Len(templates) THEN ValOk(acc)
    ELSE IF get_field_name(templates[i]).st # "ok"
    THEN ValRaise(get_field_name(templates[i]).st)
    ELSE field_names(templates, i + 1,
                     acc \o <<get_field_name(templates[i]).val>>)

\* as fields.insert(0, "filename"), but also with --no-filename
insert_filename_always(fields, no_filename) == <<t_filename>> \o fields

\* if not no_filename: fields.insert(0, "filename")
insert_filename(fields, no_filename) ==
    IF no_filename THEN fields ELSE <<t_filename>> \o fields

\* the rows csv_writer.writerow(fields) adds: none with --no-header
header_rows(fields, no_header) == IF no_header THEN <<>> ELSE <<fields>>

\* templates = [strip_field_name(t) for t in templates], then
\* templates.insert(0, "{filepath}" if path else "{filepath.name}")
csv_templates(templates, no_filename, path) ==
    (IF no_filename THEN <<>>
     ELSE IF path THEN <<Braced(f_filepath)>>
     ELSE <<Braced(f_filepath_name)>>)
        \o [i \in DOMAIN templates |-> strip_field_name(templates[i])]

\* FileTemplate(filepath).render(template, options): the template is parsed
\* and rendered with the hooks of the file in ext
file_render(template_) ==
    CHOOSE out \in
        {[st |-> r.st, val |-> r.val] :
            r \in {_render_statement(parse(template_), None, NoVariables,
                                     <<>>)}} : TRUE

\* columns = [" ".join(FileTemplate(filepath).render(template, options))
\* for template in templates], from template i on
RECURSIVE columns(_, _, _)
columns_next(templates, i, acc, r) ==
    IF r.st # "ok" THEN ValRaise(r.st)
    ELSE columns(templates, i + 1, acc \o <<Join(<<" ">>, r.val)>>)
columns(templates, i, acc) ==
    IF i > Len(templates) THEN ValOk(acc)
    ELSE CHOOSE out \in
            {columns_next(templates, i, acc, r) :
                r \in {file_render(templates[i])}} : TRUE

\* cli(...) with --csv, up to the call of print_templates_to_csv_for_files;
\* --path is not accepted with --no-filename
CsvInvoke(files, templates, no_filename, path, no_header, undefined) ==
    /\ cli.pc = "none"
    /\ ~(path /\ no_filename)
    /\ cli' = [pc |-> "csv", i |-> 1, stdout |-> <<>>, exit_code |-> None,
               templates |-> <<>>,
               args |-> [files |-> files, templates |-> templates,
                         no_filename |-> no_filename, path |-> path,
                         no_header |-> no_header, undefined |-> undefined]]
    /\ UNCHANGED <<expanding, parser_model, threads>>
    /\ UNCHANGED <<pc, cfg, ext, variables, template, results, segs, log,
                   stale, ret>>

\* print_templates_to_csv_for_files before its loop: the field names, the
\* header row and the templates to render; a ValueError of get_field_name
\* ends the program
CsvHeader ==
    /\ cli.pc = "csv"
    /\ \E fields \in {field_names(cli.args.templates, 1, <<>>)} :
          IF fields.st = "ok"
          THEN cli' = [cli EXCEPT
                          !.pc = "files",
                          !.stdout =
                              header_rows(
                                  insert_filename(fields.val,
                                                  cli.args.no_filename),
                                  cli.args.no_header),
                          !.templates =
                              csv_templates(cli.args.templates,
                                            cli.args.no_filename,
                                            cli.args.path)]
          ELSE cli' = [cli EXCEPT !.pc = "failed", !.exit_code = Some(1)]
    /\ UNCHANGED <<expanding, parser_model, threads>>
    /\ UNCHANGED <<pc, cfg, ext, variables, template, results, segs, log,
                   stale, ret>>

\* print_templates_to_csv(filepath, ...): one row with one column for each
\* template; an exception of a render ends the program with exit code 1
CsvRow ==
    /\ cli.pc = "file"
    /\ \E r \in {columns(cli.templates, 1, <<>>)} :
          IF r.st = "ok"
          THEN cli' = [cli EXCEPT
                          !.pc = "files", !.i = @ + 1,
                          !.stdout =
                              Append(@, without_sentinel(r.val,
                                                         cli.args.undefined))]
          ELSE cli' = [cli EXCEPT !.pc = "failed", !.exit_code = Some(1)]
    /\ UNCHANGED <<expanding, parser_model, threads>>
    /\ UNCHANGED <<pc, cfg, ext, variables, template, results, segs, log,
                   stale, ret>>

\* one run of the command line program with --csv
NextCsv ==
    \/ /\ cli.pc = "none"
       /\ \E files \in FileArguments, templates \in CsvTemplateArguments,
             no_filename \in BOOLEAN, path \in BOOLEAN,
             no_header \in BOOLEAN, undefined \in {None, Some(<<"?">>)} :
               CsvInvoke(files, templates, no_filename, path, no_header,
                         undefined)
    \/ CsvHeader
    \/ CliFile
    \/ CsvRow
    \/ CliExit

SpecCsv == InitCli /\ [][NextCsv]_vars

----------------------------------------------------------------------------
(* mdinfo.print_templates_to_json_for_files and
   mdinfo.get_dict_for_templates, called by cli with --json.  A JSON value
   is null, a string or an array; an object is a function of its keys. *)

JNull == [type |-> "null", string |-> <<>>, items |-> <<>>]
JString(s) == [type |-> "string", string |-> s, items |-> <<>>]
JArray(items) == [type |-> "array", string |-> <<>>, items |-> items]

\* the documents print(convert_to_json(...)) writes: one object, or the
\* array of the objects
JObject(data) == [type |-> "object", data |-> data, items |-> <<>>]
JObjects(data_list) ==
    [type |-> "array", data |-> <<>>, items |-> data_list]

\* the -p values of the JSON runs: {size}, n: {tags}, n:, filename={size},
\* e={var:x,d} and {nosuch}
JsonTemplates ==
    {Braced(f_size), <<"n", ":", " ">> \o Braced(f_tags), <<"n", ":">>,
     t_filename \o <<"=">> \o Braced(f_size),
     <<"e", "=">> \o Braced(f_var \o <<":">> \o v_x \o <<",", "d">>),
     Braced(f_nosuch)}
JsonTemplateArguments ==
    UNION {[1..n -> JsonTemplates] : n \in 1..MaxTemplates}

\* the value of an empty string kept as the string
string_value(t) == JString(t)

\* t or None
or_None(t) == IF t = <<>> THEN JNull ELSE JString(t)

\* rendered[0] if len(rendered) == 1 else rendered, after
\* rendered = [t or None for t in rendered]
scalar_or_list(rendered) ==
    IF Len(rendered) = 1 THEN or_None(rendered[1])
    ELSE JArray([i \in DOMAIN rendered |-> or_None(rendered[i])])

\* data[field] = value
SetItem(data, field, value) ==
    [k \in DOMAIN data \cup {field} |->
        IF k = field THEN value ELSE data[k]]

\* the loop of get_dict_for_templates from template i on: the field name,
\* the rendering of the stripped template with the sentinel replaced, and
\* the entry of the dict; an exception ends the loop
RECURSIVE get_dict_for_templates(_, _, _, _)
get_dict_next(templates, undefined, i, data, field, r) ==
    IF field.st # "ok" THEN ValRaise(field.st)
    ELSE IF r.st # "ok" THEN ValRaise(r.st)
    ELSE get_dict_for_templates(
             templates, undefined, i + 1,
             SetItem(data, field.val,
                     scalar_or_list(without_sentinel(r.val, undefined))))
get_dict_for_templates(templates, undefined, i, data) ==
    IF i > Len(templates) THEN ValOk(data)
    ELSE CHOOSE out \in
            {get_dict_next(templates, undefined, i, data,
                           get_field_name(templates[i]), r) :
                r \in {file_render(strip_field_name(templates[i]))}} : TRUE

\* cli(...) with --json, up to the loop of
\* print_templates_to_json_for_files
JsonInvoke(files, templates, no_filename, path, array, undefined) ==
    /\ cli.pc = "none"
    /\ ~(path /\ no_filename)
    /\ cli' = [pc |-> "files", i |-> 1, data_list |-> <<>>, stdout |-> <<>>,
               exit_code |-> None,
               args |-> [files |-> files, templates |-> templates,
                         no_filename |-> no_filename, path |-> path,
                         array |-> array, undefined |-> undefined]]
    /\ UNCHANGED <<expanding, parser_model, threads>>
    /\ UNCHANGED <<pc, cfg, ext, variables, template, results, segs, log,
                   stale, ret>>

\* the body of the loop: the dict of the file, the filename entry unless
\* --no-filename, and data_list.append(data); an exception ends the
\* program with exit code 1, nothing having been printed
JsonFile ==
    /\ cli.pc = "file"
    /\ \E r \in {get_dict_for_templates(cli.args.templates,
                                        cli.args.undefined, 1, <<>>)} :
          IF r.st = "ok"
          THEN cli' = [cli EXCEPT
                          !.pc = "files", !.i = @ + 1,
                          !.data_list =
                              Append(@,
                                  IF cli.args.no_filename THEN r.val
                                  ELSE SetItem(r.val, t_filename,
                                           JString(
                                               IF cli.args.path
                                               THEN filepath_of[ext]
                                               ELSE PathName(
                                                        filepath_of[ext]))))]
          ELSE cli' = [cli EXCEPT !.pc = "failed", !.exit_code = Some(1)]
    /\ UNCHANGED <<expanding, parser_model, threads>>
    /\ UNCHANGED <<pc, cfg, ext, variables, template, results, segs, log,
                   stale, ret>>

\* after the loop: the array is printed, or each object in turn, and the
\* program ends with exit code 0
JsonPrint ==
    /\ cli.pc = "files"
    /\ cli.i > Len(cli.args.files)
    /\ cli' = [cli EXCEPT
                  !.pc = "done", !.exit_code = Some(0),
                  !.stdout =
                      IF cli.args.array THEN <<JObjects(cli.data_list)>>
                      ELSE [k \in DOMAIN cli.data_list |->
                                JObject(cli.data_list[k])]]
    /\ UNCHANGED <<expanding, parser_model, threads>>
    /\ UNCHANGED <<pc, cfg, ext, variables, template, results, segs, log,
                   stale, ret>>

\* one run of the command line program with --json
NextJson ==
    \/ /\ cli.pc = "none"
       /\ \E files \in FileArguments, templates \in JsonTemplateArguments,
             no_filename \in BOOLEAN, path \in BOOLEAN, array \in BOOLEAN,
             undefined \in {None, Some(<<"?">>)} :
               JsonInvoke(files, templates, no_filename, path, array,
                          undefined)
    \/ CliFile
    \/ JsonFile
    \/ JsonPrint

SpecJson == InitCli /\ [][NextJson]_vars

----------------------------------------------------------------------------
(* MTLParser.expand_variables as a loop: one step per pass of its while
   loop *)

\* the strings expand_variables is called on: %x, %y, %z, a%x, %%x, %x-%y
ExpandValues ==
    {<<"%", "x">>, <<"%", "y">>, <<"%", "z">>, <<"a", "%", "x">>,
     <<"%", "%", "x">>, <<"%", "x", "-", "%", "y">>}

\* the value lists the variables x and y may hold: a text, two texts, a
\* reference to the variable itself, a reference to the other variable
StoredValues ==
    {<< <<"a">> >>, << <<"a">>, <<"b">> >>, << <<"%", "x">> >>,
     << <<"%", "y">> >>}

\* self.variables when expand_variables is called: x and y each unset or
\* set to one of the value lists
VariableStores ==
    {NoVariables} \cup {Assign(NoVariables, v_x, x) : x \in StoredValues}
        \cup {Assign(NoVariables, v_y, y) : y \in StoredValues}
        \cup {Assign(Assign(NoVariables, v_x, x), v_y, y) :
                x \in StoredValues, y \in StoredValues}

\* values = [value]; new_values = []
ExpandCall(value) ==
    /\ expanding.pc \in {"none", "returned", "raised"}
    /\ expanding' = [pc |-> "while", value |-> value, values |-> <<value>>]
    /\ UNCHANGED <<parser_model, threads>>
    /\ UNCHANGED <<pc, cfg, ext, variables, template, results, segs, log,
                   stale, ret, cli>>

\* one pass of the while loop that ends with values = new_values.copy()
ExpandPass ==
    /\ expanding.pc = "while"
    /\ \E r \in {expand_for(expanding.values, 1, <<>>, variables)} :
          /\ r.st = "ok" /\ r.val # expanding.values /\ r.val # <<>>
          /\ expanding' = [expanding EXCEPT !.values = r.val]
    /\ UNCHANGED <<parser_model, threads>>
    /\ UNCHANGED <<pc, cfg, ext, variables, template, results, segs, log,
                   stale, ret, cli>>

\* the pass of the while loop that breaks, and the return of the values
\* with %% replaced by %
ExpandReturn ==
    /\ expanding.pc = "while"
    /\ \E r \in {expand_for(expanding.values, 1, <<>>, variables)} :
          /\ r.st = "ok" /\ (r.val = expanding.values \/ r.val = <<>>)
          /\ expanding' =
                [expanding EXCEPT
                    !.pc = "returned",
                    !.values = unescaped(ValOk(expanding.values)).val]
    /\ UNCHANGED <<parser_model, threads>>
    /\ UNCHANGED <<pc, cfg, ext, variables, template, results, segs, log,
                   stale, ret, cli>>

\* the pass of the while loop that meets a variable that is not defined
ExpandRaise ==
    /\ expanding.pc = "while"
    /\ \E r \in {expand_for(expanding.values, 1, <<>>, variables)} :
          /\ r.st # "ok"
          /\ expanding' = [expanding EXCEPT !.pc = "raised", !.values = <<>>]
    /\ UNCHANGED <<parser_model, threads>>
    /\ UNCHANGED <<pc, cfg, ext, variables, template, results, segs, log,
                   stale, ret, cli>>

NextExpand ==
    \/ /\ expanding.pc \in {"none", "returned", "raised"}
       /\ \E value \in ExpandValues : ExpandCall(value)
    \/ ExpandPass
    \/ ExpandReturn
    \/ ExpandRaise

\* a parser whose variables hold any of the stores
InitExpand ==
    /\ pc = "idle"
    /\ cli = NotInvoked
    /\ expanding = NotExpanding
    /\ parser_model = Loaded
    /\ threads = NoThreads
    /\ cfg = DefaultConfig
    /\ ext = "meta"
    /\ variables \in VariableStores
    /\ template = <<>>
    /\ results = <<>>
    /\ segs = <<>>
    /\ log = <<>>
    /\ stale = FALSE
    /\ ret = [st |-> "none", val |-> <<>>]

\* a call of expand_variables that has begun goes on: the interpreter does
\* not stop in the middle of the loop
SpecExpand ==
    InitExpand /\ [][NextExpand]_vars
        /\ WF_vars(ExpandPass) /\ WF_vars(ExpandReturn) /\ WF_vars(ExpandRaise)

----------------------------------------------------------------------------
(* MTLParserModel(): __new__ and __init__ run by several threads, one step
   per statement; the class takes no lock *)

\* the number of threads that construct MTLParserModel
MaxThreads == 3

Threads == 1..MaxThreads

\* the class before any call: no instance attribute, no object
NotConstructed == [instance |-> None, objects |-> <<>>, loads |-> 0]

\* a thread calls MTLParserModel()
ThreadCall(t) ==
    /\ threads[t].pc = "idle"
    /\ threads' = [threads EXCEPT ![t].pc = "new"]
    /\ UNCHANGED <<parser_model, expanding>>
    /\ UNCHANGED <<pc, cfg, ext, variables, template, results, segs, log,
                   stale, ret, cli>>

\* __new__: if not hasattr(cls, "instance") or not cls.instance
NewTest(t) ==
    /\ threads[t].pc = "new"
    /\ threads' = [threads EXCEPT
                      ![t].pc = IF parser_model.instance = None
                                THEN "create" ELSE "return"]
    /\ UNCHANGED <<parser_model, expanding>>
    /\ UNCHANGED <<pc, cfg, ext, variables, template, results, segs, log,
                   stale, ret, cli>>

\* __new__: cls.instance = super().__new__(cls)
NewCreate(t) ==
    /\ threads[t].pc = "create"
    /\ parser_model' =
          [parser_model EXCEPT
              !.objects = Append(@, [metamodel |-> FALSE]),
              !.instance = Some(Len(parser_model.objects) + 1)]
    /\ threads' = [threads EXCEPT ![t].pc = "return"]
    /\ UNCHANGED expanding
    /\ UNCHANGED <<pc, cfg, ext, variables, template, results, segs, log,
                   stale, ret, cli>>

\* __new__: return cls.instance; the object returned is the self of
\* __init__
NewReturn(t) ==
    /\ threads[t].pc = "return"
    /\ threads' = [threads EXCEPT ![t].pc = "init",
                                  ![t].self = parser_model.instance]
    /\ UNCHANGED <<parser_model, expanding>>
    /\ UNCHANGED <<pc, cfg, ext, variables, template, results, segs, log,
                   stale, ret, cli>>

\* __init__: if hasattr(self, "metamodel"): return
InitTest(t) ==
    /\ threads[t].pc = "init"
    /\ threads' = [threads EXCEPT
                      ![t].pc =
                          IF parser_model.objects[threads[t].self[1]].metamodel
                          THEN "done" ELSE "load"]
    /\ UNCHANGED <<parser_model, expanding>>
    /\ UNCHANGED <<pc, cfg, ext, variables, template, results, segs, log,
                   stale, ret, cli>>

\* __init__: self.metamodel = metamodel_from_file(MTL_GRAMMAR_MODEL, ...)
InitLoad(t) ==
    /\ threads[t].pc = "load"
    /\ parser_model' =
          [parser_model EXCEPT
              !.objects[threads[t].self[1]].metamodel = TRUE,
              !.loads = @ + 1]
    /\ threads' = [threads EXCEPT ![t].pc = "done"]
    /\ UNCHANGED expanding
    /\ UNCHANGED <<pc, cfg, ext, variables, template, results, segs, log,
                   stale, ret, cli>>

NextThreads ==
    \E t \in Threads :
        \/ ThreadCall(t)
        \/ NewTest(t)
        \/ NewCreate(t)
        \/ NewReturn(t)
        \/ InitTest(t)
        \/ InitLoad(t)

\* the module has been imported and no MTLParser has been built
InitThreads ==
    /\ pc = "idle"
    /\ cli = NotInvoked
    /\ expanding = NotExpanding
    /\ parser_model = NotConstructed
    /\ threads = [t \in Threads |-> [pc |-> "idle", self |-> None]]
    /\ cfg = DefaultConfig
    /\ ext = "meta"
    /\ variables = NoVariables
    /\ template = <<>>
    /\ results = <<>>
    /\ segs = <<>>
    /\ log = <<>>
    /\ stale = FALSE
    /\ ret = [st |-> "none", val |-> <<>>]

SpecThreads == InitThreads /\ [][NextThreads]_vars

----------------------------------------------------------------------------
(* Properties *)

\* the number of times s occurs in the list strs
RECURSIVE Count(_, _)
Count(strs, s) ==
    IF strs = <<>> THEN 0
    ELSE (IF Head(strs) = s THEN 1 ELSE 0) + Count(Tail(strs), s)

Range(strs) == {strs[i] : i \in DOMAIN strs}

\* the same strings the same number of times, in any order
SameBag(a, b) ==
    /\ Len(a) = Len(b)
    /\ \A s \in Range(a) \cup Range(b) : Count(a, s) = Count(b, s)

\* the pieces R_i a consumed template_string contributes, from its pre, its
\* post and its final value list: pre+v+post for each v of the list, the
\* single piece pre+post when the list is empty or the segment is literal
Pieces(i) ==
    IF template[i].template = None \/ segs[i].vals = <<>>
    THEN <<template[i].pre \o template[i].post>>
    ELSE [k \in DOMAIN segs[i].vals |->
            template[i].pre \o segs[i].vals[k] \o template[i].post]

\* every concatenation r_1 ... r_n with r_i from pieces[i], one per choice
\* tuple, the first segment varying slowest
RECURSIVE Concatenations(_)
Concatenations(pieces) ==
    IF pieces = <<>> THEN << <<>> >>
    ELSE LET rest == Concatenations(Tail(pieces)) IN
         [k \in 1..(Len(pieces[1]) * Len(rest)) |->
            pieces[1][((k - 1) \div Len(rest)) + 1]
                \o rest[((k - 1) % Len(rest)) + 1]]

AllPieces == [i \in DOMAIN template |-> Pieces(i)]

\* a render call that returned after two segments of two alternatives each
TwoByTwo ==
    /\ pc = "returned"
    /\ Len(template) = 2
    /\ Len(Pieces(1)) = 2
    /\ Len(Pieces(2)) = 2

\* C1 as claimed: two segments with alternatives [a, b] and [x, y] render to
\* exactly [ax, ay, bx, by], the first segment varying slowest.
C1_FirstSegmentSlowest ==
    TwoByTwo =>
        ret.val = <<Pieces(1)[1] \o Pieces(2)[1], Pieces(1)[1] \o Pieces(2)[2],
                    Pieces(1)[2] \o Pieces(2)[1], Pieces(1)[2] \o Pieces(2)[2]>>

\* C1 as amended: two segments with alternatives [a, b] and [x, y] render to
\* exactly [ax, bx, ay, by]: the first segment varies fastest.
C1_FirstSegmentFastest ==
    TwoByTwo =>
        ret.val = <<Pieces(1)[1] \o Pieces(2)[1], Pieces(1)[2] \o Pieces(2)[1],
                    Pieces(1)[1] \o Pieces(2)[2], Pieces(1)[2] \o Pieces(2)[2]>>

\* {tags}a{tags}b has returned four distinct strings
C1_Witness ==
    /\ TwoByTwo
    /\ Pieces(1) = << <<"r">>, <<"g">> >>
    /\ Pieces(2) = << <<"a", "r", "b">>, <<"a", "g", "b">> >>
    /\ ret.val = << <<"r", "a", "r", "b">>, <<"g", "a", "r", "b">>,
                    <<"r", "a", "g", "b">>, <<"g", "a", "g", "b">> >>

\* C2: a render call that returns gives |R_1| * ... * |R_n| strings: the
\* concatenation r_1 ... r_n once for every choice of r_i from R_i.
C2_CartesianConcatenation ==
    (pc = "returned" /\ template # <<>>) =>
        /\ Len(segs) = Len(template)
        /\ SameBag(ret.val, Concatenations(AllPieces))

\* a statement of two segments with two pieces each has returned
C2_Witness ==
    /\ TwoByTwo
    /\ Len(ret.val) = 4
    /\ Pieces(1)[1] # Pieces(1)[2]

\* the three providers of the chain, in the order of the claim
ChainOrder == <<"external", "punctuation", "format">>

\* every provider of the chain returns None for the field of t
Unclaimed(t, default) ==
    \A k \in DOMAIN ChainOrder :
        get_function(ChainOrder[k], t.field, t.subfield, t.fieldarg, default,
                     NoVariables) = None

IsVariableField(field) ==
    field = f_var \/ (field # <<>> /\ Head(field) = "%")

\* the statement rendered is the single template_string {F,D}
SoleFieldWithDefault ==
    /\ Len(template) = 1
    /\ template[1].template # None
    /\ template[1].template[1].default # None
    /\ template[1].template[1].bool = None
    /\ template[1].template[1].combine = None
    /\ ~IsVariableField(template[1].template[1].field)

\* what the default D of {F,D} renders to
SoleDefault ==
    render_clause(template[1].template[1].default, None, NoVariables, <<>>)

\* C3 as claimed: rendering {F,D} with a field F that no provider claims
\* returns the rendered values of the default D.
C3_DefaultRescuesUnknownField ==
    (/\ SoleFieldWithDefault
     /\ pc \in {"returned", "raised"}
     /\ SoleDefault.st = "ok"
     /\ Unclaimed(template[1].template[1], SoleDefault.val))
    => (/\ pc = "returned"
        /\ ret.val = [k \in DOMAIN SoleDefault.val |->
                        template[1].pre \o SoleDefault.val[k]
                            \o template[1].post])

\* C3 as amended: rendering {F,D} with a field F that no provider claims
\* raises UnknownFieldError whatever the default is (or the error raised by
\* D itself, which is rendered before F is looked up).
C3_UnknownFieldRaisesDespiteDefault ==
    (/\ SoleFieldWithDefault
     /\ Unclaimed(template[1].template[1], SoleDefault.val))
    => (/\ pc = "raised"
        /\ ret.st = IF SoleDefault.st = "ok" THEN "UnknownFieldError"
                    ELSE SoleDefault.st)

\* {nosuch,f} has raised UnknownFieldError
C3_Witness ==
    /\ SoleFieldWithDefault
    /\ template[1].template[1].field = f_nosuch
    /\ SoleDefault.st = "ok"
    /\ SoleDefault.val = << <<"f">> >>
    /\ pc = "raised"
    /\ ret.st = "UnknownFieldError"

\* a lookup in which every provider of the chain returned None
AllProvidersNone(e) ==
    /\ Len(e.calls) = Len(ChainOrder)
    /\ \A k \in DOMAIN e.calls : e.calls[k].ret = None

\* C4: a lookup in which every provider returns None makes render raise
\* UnknownFieldError at once (no list is returned), lookups are made only
\* for fields other than var and %name, and UnknownFieldError is raised
\* only by such a lookup: never when a provider returned a list, even [].
C4_UnknownFieldError ==
    /\ \A i \in DOMAIN log :
        /\ ~IsVariableField(log[i].field)
        /\ AllProvidersNone(log[i]) =>
            (pc = "raised" /\ ret.st = "UnknownFieldError"
                /\ ret.val = <<>> /\ i = Len(log))
    /\ (pc = "raised" /\ ret.st = "UnknownFieldError") =>
            (log # <<>> /\ AllProvidersNone(log[Len(log)]))

\* {empty}{nosuch}: the first field is claimed with an empty list and is no
\* error, the second field is claimed by no provider and raises
C4_Witness ==
    /\ pc = "raised"
    /\ ret.st = "UnknownFieldError"
    /\ Len(log) = 2
    /\ log[1].ret = Some(<<>>)
    /\ AllProvidersNone(log[2])

\* the variable names of the templates
VariableNames == {v_x, v_y}

\* the template_string is pre{var:N,E}post
IsAssignment(ts, N) ==
    /\ ts.template # None
    /\ ts.template[1].field = f_var
    /\ ts.template[1].subfield = Some(N)
    /\ ts.template[1].default # None
    /\ ts.template[1].bool = None
    /\ ts.template[1].combine = None

\* the template_string is pre{%N}post
IsReference(ts, N) ==
    /\ ts.template # None
    /\ ts.template[1] = Plain(<<"%">> \o N)

RECURSIVE StatementAssigns(_, _)
\* some expression of the statement, nested ones included, is {var:N,...}
StatementAssigns(statement, N) ==
    \E k \in DOMAIN statement :
        /\ statement[k].template # None
        /\ \/ /\ statement[k].template[1].field = f_var
              /\ statement[k].template[1].subfield = Some(N)
           \/ \E c \in {statement[k].template[1].bool,
                        statement[k].template[1].combine,
                        statement[k].template[1].default} :
                /\ c # None
                /\ c[1].value # None
                /\ StatementAssigns(c[1].value[1], N)

\* what E of the i-th template_string {var:N,E} renders to, after the
\* template_strings before it
AssignedValues(i) ==
    render_clause(template[i].template[1].default, None,
        render_loop(SubSeq(template, 1, i - 1), 1, None, <<>>,
                    NoVariables, <<>>).vars,
        <<>>)

\* C5: {var:N,E} adds no character to the output, and a later {%N} of the
\* same call yields exactly the non-empty values E rendered to when N is not
\* assigned again in between; {var:x,h}{%x} gives ["h"] and an assignment
\* alone gives [""].
C5_VariableRoundTrip ==
    /\ \A N \in VariableNames : \A i \in DOMAIN segs :
        IsAssignment(template[i], N) =>
            /\ segs[i].vals = <<>>
            /\ segs[i].rendered = <<template[i].pre \o template[i].post>>
            /\ \A j \in DOMAIN segs :
                (/\ i < j
                 /\ IsReference(template[j], N)
                 /\ ~StatementAssigns(SubSeq(template, i + 1, j - 1), N)
                 /\ NonEmpty(AssignedValues(i).val) # <<>>)
                => segs[j].vals = NonEmpty(AssignedValues(i).val)
    /\ (pc = "returned" /\ Len(template) = 2
            /\ template[1] = TS(<<>>, Expr(f_var, Some(v_x), None, None,
                                    Clause(<<Lit(<<"h">>)>>)), <<>>)
            /\ template[2] = TS(<<>>, Plain(<<"%">> \o v_x), <<>>))
        => ret.val = << <<"h">> >>
    /\ (pc = "returned" /\ Len(template) = 1
            /\ \E N \in VariableNames : IsAssignment(template[1], N)
            /\ template[1].pre = <<>> /\ template[1].post = <<>>)
        => ret.val = << <<>> >>

\* {var:x,{tags}}a{%x}b has returned one string for each of the two tags
C5_Witness ==
    /\ pc = "returned"
    /\ Len(template) = 2
    /\ IsAssignment(template[1], v_x)
    /\ AssignedValues(1).val = << <<"r">>, <<"g">> >>
    /\ IsReference(template[2], v_x)
    /\ ret.val = << <<"a", "r", "b">>, <<"a", "g", "b">> >>

\* C6: every render call starts with no variable defined, a {%N} whose N is
\* not assigned earlier in the same call raises SyntaxError even when an
\* earlier call assigned N, and the outcome of a call is the outcome of
\* rendering its template with no variable defined.
C6_VariablesDoNotLeak ==
    /\ (pc = "loop" /\ template = <<>>) => variables = NoVariables
    /\ \A N \in VariableNames :
        (/\ template # <<>>
         /\ IsReference(template[Len(template)], N)
         /\ ~StatementAssigns(SubSeq(template, 1, Len(template) - 1), N))
        => (pc = "raised" /\ ret.st = "SyntaxError")
    /\ (pc \in {"returned", "raised"} /\ template # <<>>) =>
        /\ ret.st = _render_statement(template, None, NoVariables, <<>>).st
        /\ ret.val = _render_statement(template, None, NoVariables, <<>>).val

\* a call that follows a call which defined variables renders {%x} and
\* raises SyntaxError
C6_Witness ==
    /\ stale
    /\ pc = "raised"
    /\ ret.st = "SyntaxError"
    /\ Len(template) = 1
    /\ IsReference(template[1], v_x)

\* C7: a lookup asks the providers in the order external plugins, punctuation
\* table, format fields; a provider is asked only when every provider before
\* it returned None, and the lookup returns what the last provider asked
\* returned: the first answer that is not None, or None after all three.
C7_ProviderChainOrder ==
    \A i \in DOMAIN log :
        /\ Len(log[i].calls) \in 1 .. Len(ChainOrder)
        /\ \A k \in DOMAIN log[i].calls :
            /\ log[i].calls[k].provider = ChainOrder[k]
            /\ k < Len(log[i].calls) => log[i].calls[k].ret = None
        /\ log[i].calls[Len(log[i].calls)].ret = None
                => Len(log[i].calls) = Len(ChainOrder)
        /\ log[i].ret = log[i].calls[Len(log[i].calls)].ret

\* the external provider claims {comma} and {strip}, which the punctuation
\* table and the format fields claim too: the external values are returned
C7_Witness ==
    /\ ext = "shadow"
    /\ pc = "returned"
    /\ Len(log) = 2
    /\ log[1].field = f_comma
    /\ log[1].calls = <<[provider |-> "external",
                         ret |-> Some(<<Some(<<"X">>)>>)]>>
    /\ log[2].field = f_strip
    /\ Len(log[2].calls) = 1
    /\ ret.val = << <<"X", "S">> >>

\* the literal documented for a punctuation field name
DocumentedLiteral(name) ==
    CASE name = f_comma -> <<",">>
      [] name = f_semicolon -> <<";">>
      [] name = f_newline -> <<"\n">>
      [] name = f_lf -> <<"\n">>
      [] name = f_cr -> <<"\r">>
      [] name = f_crlf -> <<"\r", "\n">>
      [] name = f_openbrace -> <<"{">>
      [] name = f_closebrace -> <<"}">>
      [] name = f_openparens -> <<"(">>
      [] name = f_closeparens -> <<")">>
      [] name = f_openbracket -> <<"[">>
      [] name = f_closebracket -> <<"]">>
      [] name = f_pipe -> <<"|">>
      [] name = f_ampersand -> <<"&">>
      [] name = f_percent -> <<"%">>
      [] name = f_questionmark -> <<"?">>

\* the statement rendered is the single template_string {name}
SolePunctuation(name) ==
    template = <<TS(<<>>, Plain(name), <<>>)>>

\* C8 as claimed: for every punctuation field name and every external
\* provider, rendering {name} returns the documented literal of the name.
C8_PunctuationStability ==
    \A name \in PunctuationNames :
        SolePunctuation(name) =>
            /\ pc # "raised"
            /\ results = <<DocumentedLiteral(name)>>
            /\ pc = "returned" => ret.val = <<DocumentedLiteral(name)>>

\* C8 as amended: for every punctuation field name and every external
\* provider that returns None for the name, rendering {name} returns the
\* documented literal of the name.
C8_PunctuationUnlessClaimed ==
    \A name \in PunctuationNames :
        (/\ SolePunctuation(name)
         /\ external_get_field_values(ext, name, None, None, <<>>) = None)
        => /\ pc # "raised"
           /\ results = <<DocumentedLiteral(name)>>
           /\ pc = "returned" => ret.val = <<DocumentedLiteral(name)>>

\* {crlf} has returned "\r\n" with an external provider that claims other
\* fields
C8_Witness ==
    /\ ext = "meta"
    /\ SolePunctuation(f_crlf)
    /\ pc = "returned"
    /\ ret.val = << <<"\r", "\n">> >>

\* no template_string of the statement has an expression
LiteralOnly ==
    \A i \in DOMAIN template : template[i].template = None

RECURSIVE Text(_)
\* the text of a statement without expressions
Text(statement) ==
    IF statement = <<>> THEN <<>>
    ELSE Head(statement).pre \o Head(statement).post \o Text(Tail(statement))

\* C9 as claimed: rendering a template without brace expression, the empty
\* string included, returns the one-element list [input].
C9_LiteralOnlyIdempotence ==
    (pc = "returned" /\ LiteralOnly) => ret.val = <<Text(template)>>

\* C9 as amended: rendering a non-empty template without brace expression
\* returns the one-element list [input]; rendering the empty string returns
\* the empty list.
C9_LiteralOnlyNonEmpty ==
    (pc = "returned" /\ LiteralOnly) =>
        ret.val = IF template = <<>> THEN <<>> ELSE <<Text(template)>>

\* two literal template_strings have been rendered to one string
C9_Witness ==
    /\ pc = "returned"
    /\ template = <<Lit(<<"a">>), Lit(<<"a", " ", "b">>)>>
    /\ ret.val = << <<"a", "a", " ", "b">> >>

\* C10 as claimed: when an expression with empty pre and post text
\* evaluates to no values, the output of the whole template is the empty
\* list.
C10_EmptyValuesCollapse ==
    (/\ pc = "returned"
     /\ \E i \in DOMAIN segs :
            /\ template[i].template # None
            /\ template[i].pre = <<>>
            /\ template[i].post = <<>>
            /\ segs[i].vals = <<>>)
    => ret.val = <<>>

\* C10 as amended: an expression that evaluates to no values contributes the
\* single piece pre+post, the empty string when it has no pre and post
\* text, and the output of a template with at least one template_string is
\* never the empty list.
C10_EmptyValuesPlaceholder ==
    /\ \A i \in DOMAIN segs :
        (template[i].template # None /\ segs[i].vals = <<>>) =>
            segs[i].rendered = <<template[i].pre \o template[i].post>>
    /\ (pc = "returned" /\ template # <<>>) => ret.val # <<>>

\* {empty?t}, a bool expression whose field is empty and that has no
\* default, has returned [""]
C10_Witness ==
    /\ pc = "returned"
    /\ Len(template) = 1
    /\ template[1].template # None
    /\ template[1].template[1].field = f_empty
    /\ template[1].template[1].bool # None
    /\ template[1].template[1].default = None
    /\ template[1].pre = <<>>
    /\ template[1].post = <<>>
    /\ segs[1].vals = <<>>
    /\ ret.val = << <<>> >>

----------------------------------------------------------------------------
(* Conditionals *)

True == <<"T", "r", "u", "e">>

\* the render call has returned from a statement of the one template_string
SoleReturned == pc = "returned" /\ Len(template) = 1

\* an expression with a conditional and no other clause, without text around
ConditionalOnly(ts) ==
    /\ ts.template # None
    /\ ts.pre = <<>> /\ ts.post = <<>>
    /\ ts.template[1].conditional # None
    /\ ts.template[1].bool = None /\ ts.template[1].default = None
    /\ ts.template[1].combine = None /\ ts.template[1].filter = None
    /\ ts.template[1].findreplace = None /\ ts.template[1].delim = None

\* the same expression with not added or taken away
Negated(ts) ==
    [ts EXCEPT !.template =
        Some([ts.template[1] EXCEPT !.conditional =
            Some([ts.template[1].conditional[1] EXCEPT !.negation = ~@])])]

\* what render gives for the statement of the one template_string ts
RenderOf(ts) == _render_statement(<<ts>>, None, NoVariables, <<>>)

\* C11 as stated: whenever {field O x} and {field O not x} both render
\* without raising, one of them renders ["True"] and the other renders []
C11_ConditionalDuality ==
    (SoleReturned /\ ConditionalOnly(template[1])
        /\ RenderOf(Negated(template[1])).st = "ok")
    => \/ ret.val = <<True>> /\ RenderOf(Negated(template[1])).val = <<>>
       \/ ret.val = <<>> /\ RenderOf(Negated(template[1])).val = <<True>>

\* what is rendered for a value list that the conditional left empty: the
\* placeholder, except after a var assignment, which renders [""]
NoMatch(ts) ==
    IF ts.template[1].field = f_var THEN << <<>> >> ELSE <<cfg.none_str>>

\* C11: whenever {field O x} renders without raising, so does
\* {field O not x}, and one of the two renders ["True"] while the other
\* renders the placeholder [none_str] ([""] for a var assignment), never []
C11_ConditionalComplement ==
    (SoleReturned /\ ConditionalOnly(template[1]))
    => /\ RenderOf(Negated(template[1])).st = "ok"
       /\ \/ /\ ret.val = <<True>>
             /\ RenderOf(Negated(template[1])).val = NoMatch(template[1])
          \/ /\ ret.val = NoMatch(template[1])
             /\ RenderOf(Negated(template[1])).val = <<True>>

\* {size not >= 12} was rendered, size being 12: the negated comparison
\* does not hold and the placeholder is rendered
C11_Witness ==
    /\ SoleReturned /\ ConditionalOnly(template[1])
    /\ template[1].template[1].conditional[1].negation
    /\ template[1].template[1].conditional[1].operator = ">="
    /\ ret.val = <<cfg.none_str>>
    /\ RenderOf(Negated(template[1])).val = <<True>>

----------------------------------------------------------------------------
(* Bool clauses and fields without values *)

\* what a clause of a rendered expression renders to: [] when the clause is
\* absent, [""] when it is empty.  The clauses of the templates checked here
\* are literals and fields, which render the same wherever they stand.
ClauseValues(clause) ==
    IF clause = None THEN <<>>
    ELSE render_clause(clause, None, NoVariables, <<>>).val

\* template_string i of the statement being rendered has a bool clause
HasBool(i) ==
    template[i].template # None /\ template[i].template[1].bool # None

\* C12: an expression with a bool clause has the bool clause's rendered list
\* as its values when its value list V is non-empty, and the default's
\* rendered list ([] without a default) when V is empty; the placeholder is
\* never its value
C12_BoolTernary ==
    \A i \in DOMAIN segs :
        HasBool(i) =>
            /\ segs[i].vals =
                  IF segs[i].v # <<>>
                  THEN ClauseValues(template[i].template[1].bool)
                  ELSE ClauseValues(template[i].template[1].default)
            /\ segs[i].vals # <<cfg.none_str>>

\* {size > 10?big,small}{nul?t} was rendered: the first expression has a
\* value and gives big, the second has none and no default and gives nothing
C12_Witness ==
    /\ pc = "returned" /\ Len(template) = 2
    /\ HasBool(1) /\ HasBool(2)
    /\ template[1].template[1].conditional # None
    /\ segs[1].v = <<True>> /\ segs[1].vals = <<t_big>>
    /\ template[2].template[1].default = None
    /\ segs[2].v = <<>> /\ segs[2].vals = <<>>
    /\ ret.val = <<t_big>>

\* the provider claims the field of expression ts and gives it no value:
\* [] or only None entries
ClaimedWithoutValues(ts) ==
    /\ ts.template # None
    /\ LET got == external_get_field_values(ext, ts.template[1].field,
                      ts.template[1].subfield, None, <<>>)
       IN got # None /\ StripNone(got[1]) = <<>>

\* an expression without a bool clause that is no var assignment
NoBoolNoVar(ts) ==
    ts.template[1].bool = None /\ ts.template[1].field # f_var

\* the default's rendered list if a default is present, else the placeholder
DefaultOrPlaceholder(ts) ==
    IF ts.template[1].default # None
    THEN ClauseValues(ts.template[1].default)
    ELSE <<cfg.none_str>>

\* the render call raised while rendering the last template_string recorded
RaisedAtLast == pc = "raised" /\ Len(template) = Len(segs) + 1

\* C13 as stated: an expression without a bool clause, not a var
\* assignment, whose field is claimed without values never makes render
\* raise, and its values are the default's rendered list, or [none_str]
\* without a default
C13_EmptyValuesNeverRaise ==
    /\ \A i \in DOMAIN segs :
          (ClaimedWithoutValues(template[i]) /\ NoBoolNoVar(template[i]))
          => segs[i].vals = DefaultOrPlaceholder(template[i])
    /\ RaisedAtLast
       => ~(ClaimedWithoutValues(template[Len(template)])
            /\ NoBoolNoVar(template[Len(template)]))

\* an expression that is a field and at most a default
FieldAndDefaultOnly(ts) ==
    /\ ts.template[1].filter = None /\ ts.template[1].findreplace = None
    /\ ts.template[1].conditional = None /\ ts.template[1].combine = None
    /\ ts.template[1].delim = None

\* a statement of literal text
IsLiteral(statement) ==
    \A k \in DOMAIN statement : statement[k].template = None

\* a default that is absent, empty or literal text
LiteralDefault(ts) ==
    \/ ts.template[1].default = None
    \/ ts.template[1].default[1].value = None
    \/ IsLiteral(ts.template[1].default[1].value[1])

\* C13: for an expression without a bool clause, not a var assignment,
\* whose field is claimed without values: the values are the default's
\* rendered list, or [none_str] without a default, whenever the value list
\* is still empty after filters, find/replace, conditional and combine, as
\* it is when the expression has none of them; otherwise they are that
\* value list.  Render raises at such an expression only if it has a filter,
\* find/replace, conditional, combine, delim or a default that is not
\* literal text.
C13_EmptyValuesGiveDefault ==
    /\ \A i \in DOMAIN segs :
          (ClaimedWithoutValues(template[i]) /\ NoBoolNoVar(template[i]))
          => /\ segs[i].vals = IF segs[i].v = <<>>
                               THEN DefaultOrPlaceholder(template[i])
                               ELSE segs[i].v
             /\ FieldAndDefaultOnly(template[i]) => segs[i].v = <<>>
    /\ (RaisedAtLast /\ ClaimedWithoutValues(template[Len(template)])
            /\ NoBoolNoVar(template[Len(template)]))
       => ~(FieldAndDefaultOnly(template[Len(template)])
            /\ LiteralDefault(template[Len(template)]))

\* {nul}{empty,d} was rendered: the placeholder for the first expression,
\* the default for the second
C13_Witness ==
    /\ pc = "returned" /\ Len(template) = 2
    /\ template[1].template # None /\ template[1].template[1].field = f_nul
    /\ template[1].template[1].default = None
    /\ FieldAndDefaultOnly(template[1]) /\ NoBoolNoVar(template[1])
    /\ ClaimedWithoutValues(template[1])
    /\ segs[1].vals = <<cfg.none_str>>
    /\ ClaimedWithoutValues(template[2]) /\ NoBoolNoVar(template[2])
    /\ FieldAndDefaultOnly(template[2])
    /\ template[2].template[1].default # None
    /\ segs[2].vals = << <<"d">> >>
    /\ ret.val = <<cfg.none_str \o <<"d">> >>

\* C14 as stated: {var:ext,jpg}{filepath.name endswith %ext?yes,no} renders
\* to ["yes"], filepath.name being pears.jpg
C14_BareVariableComparand ==
    (pc = "returned" /\ template = <<AssignExt, EndsWithBareExt>>)
    => ret.val = <<t_yes>>

\* C14: the comparand %ext outside braces is compared as the text "%ext",
\* so {var:ext,jpg}{filepath.name endswith %ext?yes,no} renders to ["no"];
\* the comparand {%ext} is compared using the variable's value, so
\* {var:ext,jpg}{filepath.name endswith {%ext}?yes,no} renders to ["yes"]
C14_BracedVariableComparand ==
    /\ (pc = "returned" /\ template = <<AssignExt, EndsWithBareExt>>)
       => ret.val = <<t_no>> /\ segs[2].v = <<>>
    /\ (pc = "returned" /\ template = <<AssignExt, EndsWithBracedExt>>)
       => ret.val = <<t_yes>> /\ segs[2].v = <<True>>

\* {var:ext,jpg}{filepath.name endswith %ext?yes,no} was rendered with ext
\* bound to jpg
C14_Witness ==
    /\ pc = "returned"
    /\ template = <<AssignExt, EndsWithBareExt>>
    /\ v_ext \in DOMAIN variables /\ variables[v_ext] = <<t_jpg>>
    /\ ret.val = <<t_no>>

----------------------------------------------------------------------------
(* Filters and the exceptions render raises *)

\* template_string i is {field|F} or {field|F()} with F a filter the catalog
\* marks as requiring an argument
MissingArgument(i) ==
    /\ template[i].template # None
    /\ template[i].template[1].filter # None
    /\ \E name \in RequiredArgumentFilters :
          template[i].template[1].filter[1].value \in
              {<<name>>, <<name \o <<"(", ")">> >>}

\* C15: a filter that requires an argument and is invoked without one or
\* with an empty one makes render raise SyntaxError, whatever the values of
\* the field are
C15_RequiredArgument ==
    \A i \in DOMAIN template :
        MissingArgument(i) =>
            /\ i \notin DOMAIN segs
            /\ pc = "raised" /\ ret.st = "SyntaxError"

\* C16: a render call on a str template that raises, raises SyntaxError or
\* UnknownFieldError (TypeError being raised for a template that is not a
\* str)
C16_ClosedErrorSurface ==
    (pc = "raised" /\ ret.st # "TypeError")
    => ret.st \in {"SyntaxError", "UnknownFieldError"}

----------------------------------------------------------------------------
(* Variables in the delim, filter arguments, find/replace and format
   strings *)

\* the names N of the references %N in s, wherever they stand, %% being an
\* escaped %
RECURSIVE References(_)
References(s) ==
    IF s = <<>> THEN {}
    ELSE IF Len(s) >= 2 /\ s[1] = "%" /\ s[2] = "%"
    THEN References(Drop(s, 2))
    ELSE IF s[1] = "%" /\ WordRun(Tail(s)) # <<>>
    THEN {WordRun(Tail(s))} \cup References(Drop(s, 1 + Len(WordRun(Tail(s)))))
    ELSE References(Tail(s))

\* s with every reference %N replaced by the value of N and every %% by %
RECURSIVE Expanded(_, _)
Expanded(s, vs) ==
    IF s = <<>> THEN <<>>
    ELSE IF Len(s) >= 2 /\ s[1] = "%" /\ s[2] = "%"
    THEN <<"%">> \o Expanded(Drop(s, 2), vs)
    ELSE IF s[1] = "%" /\ WordRun(Tail(s)) # <<>>
    THEN vs[WordRun(Tail(s))][1]
            \o Expanded(Drop(s, 1 + Len(WordRun(Tail(s)))), vs)
    ELSE <<s[1]>> \o Expanded(Tail(s), vs)

\* the variables when the i-th template_string is rendered
VariablesBefore(i) ==
    render_loop(SubSeq(template, 1, i - 1), 1, None, <<>>, NoVariables,
                <<>>).vars

\* what the expression of StringUse gives when the string it uses is e,
\* tags being r and g and size being 12
UsedWith(context, e) ==
    CASE context = "delim" -> << <<"r">> \o e \o <<"g">> >>
      [] context = "argument" -> << <<"r">> \o e, <<"g">> \o e >>
      [] context = "replace" -> <<e, <<"g">> >>
      [] context = "format" -> << formatted("int", <<"1", "2">>, e)[1] >>

\* C17: when the string of a delim, filter argument, replacement or format
\* string refers to a variable that holds no value or more than one value,
\* the render raises SyntaxError
C17_SingleValueRule ==
    \A u \in StringUses : \A i \in DOMAIN template :
        (/\ template[i] = StringUse(u.context, u.s)
         /\ \E N \in References(u.s) :
                /\ N \in DOMAIN VariablesBefore(i)
                /\ Len(VariablesBefore(i)[N]) # 1)
        => /\ i \notin DOMAIN segs
           /\ pc = "raised" /\ ret.st = "SyntaxError"

\* C18: when every variable the string of a delim, filter argument,
\* replacement or format string refers to is defined with one value, the
\* string is used with each %N, at its start or after other text, replaced
\* by the value of N and each %% replaced by %
C18_ExpansionAnywhere ==
    \A u \in StringUses : \A i \in DOMAIN template :
        (/\ template[i] = StringUse(u.context, u.s)
         /\ \A N \in References(u.s) :
                /\ N \in DOMAIN VariablesBefore(i)
                /\ Len(VariablesBefore(i)[N]) = 1)
        => /\ i \in DOMAIN segs
           /\ segs[i].rendered =
                UsedWith(u.context, Expanded(u.s, VariablesBefore(i)))

----------------------------------------------------------------------------
(* The delim and in-place expansion *)

\* an expression that is a field, possibly with a delim and a default, and
\* no variable in the delim
DelimFieldDefault(ts) ==
    /\ ts.template # None
    /\ ts.template[1].filter = None /\ ts.template[1].findreplace = None
    /\ ts.template[1].conditional = None /\ ts.template[1].combine = None
    /\ ts.template[1].bool = None
    /\ ts.template[1].delim # None
       => References(OrEmpty(ts.template[1].delim[1].value)) = {}

\* the values the provider gives the field of ts, None entries removed
ProvidedValues(ts) ==
    StripNone(external_get_field_values(ext, ts.template[1].field,
                  ts.template[1].subfield, None, <<>>)[1])

\* the delim if given, else inplace_sep
Separator(ts) ==
    IF ts.template[1].delim # None
    THEN OrEmpty(ts.template[1].delim[1].value)
    ELSE cfg.inplace_sep

\* C19: with a delim (the empty delim included) or in expand_inplace mode, a
\* non-empty value list becomes the single element sep.join(V), sep being
\* the delim if given and inplace_sep otherwise; an empty list stays empty,
\* so that the default, or none_str, is used
C19_DelimJoinRespectsDefault ==
    \A i \in DOMAIN segs :
        (/\ DelimFieldDefault(template[i])
         /\ template[i].template[1].delim # None \/ cfg.expand_inplace
         /\ external_get_field_values(ext, template[i].template[1].field,
                template[i].template[1].subfield, None, <<>>) # None)
        => IF ProvidedValues(template[i]) # <<>>
           THEN /\ segs[i].v = <<Join(Separator(template[i]),
                                      ProvidedValues(template[i]))>>
                /\ segs[i].vals = segs[i].v
           ELSE /\ segs[i].v = <<>>
                /\ segs[i].vals = DefaultOrPlaceholder(template[i])

\* a parser with in-place expansion and the separator ";" has rendered
\* {+empty,d}{tags}: the default d for the empty list and r;g for the tags
C19_Witness ==
    /\ cfg = InplaceSemicolonConfig
    /\ pc = "returned"
    /\ Len(template) = 2
    /\ template[1].template[1].delim = Some([value |-> None])
    /\ ProvidedValues(template[1]) = <<>>
    /\ segs[1].v = <<>>
    /\ segs[1].vals = << <<"d">> >>
    /\ template[2] = TS(<<>>, Plain(f_tags), <<>>)
    /\ segs[2].vals = << <<"r", ";", "g">> >>
    /\ ret.val = << <<"d", "r", ";", "g">> >>

----------------------------------------------------------------------------
(* The output of print mode *)

\* the name of each file
FileName ==
    [pears |-> <<"p", "e", "a", "r", "s", ".", "j", "p", "g">>,
     warm |-> <<"w", "a", "r", "m", ".", "m", "p", "3">>]

\* the values of the -p template {field} for the file f: those its plugins
\* give, or the --undefined string (nothing without it) when they give none
TemplateValues(f, t) ==
    LET got == StripNone(file_get_template_value(f, t[1].template[1].field)[1])
    IN IF got # <<>> THEN got ELSE <<OrEmpty(cli.args.undefined)>>

\* the line of the k-th file argument
ExpectedLine(k) ==
    LET f == cli.args.files[k]
        values == Flatten([j \in DOMAIN cli.args.templates |->
                              TemplateValues(f, cli.args.templates[j])])
    IN (IF cli.args.no_filename THEN <<>>
        ELSE IF cli.args.path THEN filepath_of[f] \o <<":", " ">>
        ELSE FileName[f] \o <<":", " ">>)
       \o Join(IF cli.args.null_separator THEN <<NUL>> ELSE <<" ">>, values)
       \o <<"\n">>

\* the lines of the first n file arguments
RECURSIVE ExpectedOutput(_)
ExpectedOutput(n) ==
    IF n = 0 THEN <<>> ELSE ExpectedOutput(n - 1) \o ExpectedLine(n)

\* C20: in print mode the program prints one line for each file argument, in
\* the order of the arguments: the header (the name of the file and ": ",
\* the path instead of the name with --path, nothing with --no-filename)
\* followed by the values of the -p templates for that file, in the order of
\* the templates, joined by one space, or by NUL with --null-separator
C20_PrintModeOutput ==
    /\ cli.pc \in {"files", "file", "done"}
       => cli.stdout = ExpectedOutput(cli.i - 1)
    /\ cli.pc = "done"
       => /\ cli.i - 1 = Len(cli.args.files)
          /\ Count(cli.stdout, "\n") = Len(cli.args.files)

\* -p {filepath.name} -p {size} --no-filename --null-separator for the files
\* warm and pears has printed warm.mp3 NUL 7 and pears.jpg NUL 12
C20_Witness ==
    /\ cli.pc = "done"
    /\ cli.args.files = <<"warm", "pears">>
    /\ cli.args.templates = <<Field1(f_filepath_name), Field1(f_size)>>
    /\ cli.args.no_filename /\ cli.args.null_separator
    /\ cli.stdout = FileName.warm \o <<NUL, "7", "\n">>
                        \o FileName.pears \o <<NUL, "1", "2", "\n">>

----------------------------------------------------------------------------
(* Numeric comparisons *)

\* template_string i is an expression with one of <, <=, >, >= and no not
IsComparison(i) ==
    /\ template[i].template # None
    /\ template[i].template[1].conditional # None
    /\ template[i].template[1].conditional[1].operator
            \in ComparisonOperators
    /\ ~template[i].template[1].conditional[1].negation

\* the value list V the comparison of template_string i is made on: the
\* values of the expression without its conditional
ComparedValues(i) ==
    _render_template_string(
        [template[i] EXCEPT !.template[1].conditional = None],
        None, <<>>, NoVariables, <<>>).v

\* the comparand list C of template_string i, its comparands being literal
\* text
Comparands(i) ==
    [k \in DOMAIN template[i].template[1].conditional[1].value[1] |->
        template[i].template[1].conditional[1].value[1][k][1].pre]

\* the string converts to a number
IsNumber(s) == StrToFloat(s) # None

\* C24: a comparison with <, <=, >, >= raises SyntaxError when it has not
\* exactly one comparand, and when the comparand or any of the values is
\* not a number; otherwise it matches iff some value satisfies the relation
C24_NumericComparison ==
    \A i \in DOMAIN template :
        IsComparison(i) =>
            IF \/ Len(Comparands(i)) # 1
               \/ ~IsNumber(Comparands(i)[1])
               \/ \E k \in DOMAIN ComparedValues(i) :
                      ~IsNumber(ComparedValues(i)[k])
            THEN /\ i \notin DOMAIN segs
                 /\ pc = "raised" /\ ret.st = "SyntaxError"
            ELSE /\ i \in DOMAIN segs
                 /\ segs[i].v =
                      IF \E k \in DOMAIN ComparedValues(i) :
                            comparison_test_function(
                                template[i].template[1].conditional[1]
                                    .operator,
                                StrToFloat(ComparedValues(i)[k])[1],
                                StrToFloat(Comparands(i)[1])[1])
                      THEN <<True>> ELSE <<>>

----------------------------------------------------------------------------
(* The sanitize hooks *)

\* template_string i is {field} and nothing else
IsPlainField(i) ==
    /\ template[i].template # None
    /\ template[i] = TS(<<>>, Plain(template[i].template[1].field), <<>>)

\* the strings among the values the provider gives for the field of
\* template_string i, each handed to the sanitize_value hook
StringsSanitized(i) ==
    LET strs == without_none(external_get_field_values(
                    ext, template[i].template[1].field, None, None, <<>>))
    IN [k \in DOMAIN strs |-> SanitizeHook(strs[k])]

\* C25: with a sanitize_value hook, the None entries of a field's values
\* are removed before the hook is applied: the hook is called on the
\* strings only and a None entry contributes no value
C25_NoneStrippedBeforeSanitize ==
    \A i \in DOMAIN template :
        (cfg.sanitize_value # None /\ IsPlainField(i)) =>
            /\ i \in DOMAIN segs
            /\ segs[i].v = StringsSanitized(i)

\* the text of a clause that is literal text
ClauseText(clause) == clause[1].value[1][1].pre

\* the values of template_string i, an expression of SanitizeSegments,
\* when no hook is applied to what its clauses render to
Unsanitized(i) ==
    LET t == template[i].template[1]
        V == without_none(external_get_field_values(ext, t.field, None,
                                                    None, <<>>))
        W == IF t.conditional = None THEN V
             ELSE IF V = <<t.conditional[1].value[1][1][1].pre>>
             THEN <<True>> ELSE <<>>
        X == IF t.combine = None THEN W ELSE W \o <<ClauseText(t.combine)>>
    IN IF t.bool # None
       THEN <<ClauseText(IF X # <<>> THEN t.bool ELSE t.default)>>
       ELSE IF X # <<>> THEN X
       ELSE IF t.default # None THEN <<ClauseText(t.default)>>
       ELSE <<cfg.none_str>>

\* C26: the sanitize hook is applied exactly once to each string render
\* returns, and not to what the default, bool, combine and comparand
\* clauses of an expression render to
C26_SanitizeFinalOnly ==
    (cfg.sanitize # None /\ cfg.sanitize_value = None) =>
        /\ \A i \in DOMAIN segs :
              template[i].template # None => segs[i].vals = Unsanitized(i)
        /\ (pc = "returned" /\ ret.st = "ok") =>
              ret.val = [k \in DOMAIN results |-> SanitizeHook(results[k])]

----------------------------------------------------------------------------
(* Sub-expressions are rendered before the field is resolved *)

\* the variables after the clause has been rendered with the variables vs
ClauseVariables(clause, vs) ==
    IF clause = None THEN vs ELSE render_clause(clause, None, vs, <<>>).vars

\* the variables after the combine and the bool clause of template_string i
\* have been rendered, in this order
VariablesAfterBool(i) ==
    ClauseVariables(template[i].template[1].bool,
        ClauseVariables(template[i].template[1].combine, VariablesBefore(i)))

\* the variables after the combine, bool and default clauses and the
\* comparands of template_string i have been rendered, in this order,
\* whatever the values of the field are
EagerVariables(i) ==
    conditional_after(
        Ok(<<>>, ClauseVariables(template[i].template[1].default,
                                 VariablesAfterBool(i)), <<>>),
        template[i].template[1].conditional).vars

\* C29: the combine, bool, default and comparand sub-expressions of an
\* expression are rendered in that order before its field is resolved,
\* whether or not their values are used: the assignments in them take
\* effect, and a reference {%N,...} sees what its own default assigned to N
C29_EagerSubExpressions ==
    /\ \A i \in DOMAIN segs :
          template[i].template # None =>
              /\ VariablesBefore(i + 1) =
                    IF template[i].template[1].field = f_var
                    THEN Assign(EagerVariables(i),
                                template[i].template[1].subfield[1],
                                NonEmpty(render_clause(
                                    template[i].template[1].default, None,
                                    VariablesAfterBool(i), <<>>).val))
                    ELSE EagerVariables(i)
              /\ Head(template[i].template[1].field) = "%" =>
                    segs[i].v =
                        EagerVariables(i)[Tail(template[i].template[1].field)]
    /\ pc \in {"loop", "returned"} =>
          variables = VariablesBefore(Len(segs) + 1)

\* x = s has been extended by the combine, bool, default and comparand
\* clauses of one expression, in this order
C29_Witness ==
    /\ pc = "returned"
    /\ template = <<TS(<<>>, Expr(f_var, Some(v_x), None, None,
                                  Clause(Text1(<<"s">>))), <<>>),
                    ExtendInEveryClause>>
    /\ variables[v_x] = << <<"s", "c", "b", "d", "e">> >>

----------------------------------------------------------------------------
(* Termination of expand_variables *)

\* C28: a call of expand_variables returns or raises, whatever the string
\* and the variables are, also when the values of the variables refer to
\* the variables themselves or to each other
C28_ExpandTerminates ==
    (expanding.pc = "while") ~> (expanding.pc \in {"returned", "raised"})

----------------------------------------------------------------------------
(* The parser model singleton *)

\* C27: whatever the interleaving of the threads that construct
\* MTLParserModel, they all obtain the same instance and the grammar
\* metamodel is loaded at most once
C27_ThreadSafeSingleton ==
    /\ parser_model.loads <= 1
    /\ \A t, u \in DOMAIN threads :
          (threads[t].pc = "done" /\ threads[u].pc = "done")
              => threads[t].self = threads[u].self

----------------------------------------------------------------------------
(* Field names of the -p values *)

\* the positions of a : or = in T that stand before any brace and after at
\* least one character: where a prefix "name:" or "name=" may end
PrefixEnds(T) ==
    {k \in 2..Len(T) :
        /\ T[k] \in {":", "="}
        /\ \A j \in 1..k : T[j] \notin {"{", "}"}}

\* the text of the first field of T, with its subfield: what follows the
\* first opening brace up to a comma or the closing brace
RECURSIVE FieldRun(_)
FieldRun(s) ==
    IF s = <<>> \/ Head(s) \in {",", "}"} THEN <<>>
    ELSE <<Head(s)>> \o FieldRun(Tail(s))
FirstFieldOr(T) ==
    IF text_run(T) = T THEN T ELSE FieldRun(Drop(T, Len(text_run(T)) + 1))

\* C23: when a -p value T starts, before any brace, with name: or name=,
\* the key is name and the template rendered is T without that prefix and
\* the whitespace after it; otherwise the template rendered is T and the key
\* is the first field of T (field:subfield with a subfield), or T itself
\* when T has no field
C23_FieldNaming ==
    cli.pc = "named" =>
        IF PrefixEnds(cli.template) # {}
        THEN \E k \in PrefixEnds(cli.template) :
                /\ cli.field = ValOk(SubSeq(cli.template, 1, k - 1))
                /\ cli.stripped = LStrip(Drop(cli.template, k))
        ELSE /\ cli.stripped = cli.template
             /\ cli.field = ValOk(FirstFieldOr(cli.template))

----------------------------------------------------------------------------
(* The CSV output *)

\* what the template T of a CSV run gives for the file f, by the meaning of
\* the template: the size, the tags separated by a space (the undefined
\* string when there is none), nothing for an empty template
CsvCell(f, T, undefined) ==
    IF T = Braced(f_size) THEN IntToStr(st_size[f])
    ELSE IF T = <<"n", ":", " ">> \o Braced(f_tags)
    THEN (IF f = "pears" THEN <<"r", " ", "g">> ELSE OrEmpty(undefined))
    ELSE <<>>

\* the name of the file in the first column
CsvFilename(f, path) ==
    IF path THEN filepath_of[f] ELSE PathName(filepath_of[f])

\* the header row and the data row of file f that a run with the arguments
\* a is to write
CsvHeaderRow(a) ==
    (IF a.no_filename THEN <<>> ELSE <<t_filename>>)
        \o [j \in DOMAIN a.templates |-> get_field_name(a.templates[j]).val]
CsvDataRow(a, f) ==
    (IF a.no_filename THEN <<>> ELSE <<CsvFilename(f, a.path)>>)
        \o [j \in DOMAIN a.templates |->
                CsvCell(f, a.templates[j], a.undefined)]

\* the number of header rows of the run
CsvHeaders(a) == IF a.no_header THEN 0 ELSE 1

\* C21: in CSV mode the header row is the first row and is written once,
\* and not at all with --no-header; after it comes one data row for each
\* file, in the order of the file arguments (all of them once the run is
\* done); every row has one column for each -p template, in the order of
\* the templates, after the filename column that is there unless
\* --no-filename is given
C21_CsvOutput ==
    cli.pc \in {"files", "file", "done", "failed"} =>
        /\ \A r \in DOMAIN cli.stdout :
              Len(cli.stdout[r]) =
                  Len(cli.args.templates)
                      + (IF cli.args.no_filename THEN 0 ELSE 1)
        /\ cli.pc # "failed" =>
              /\ Len(cli.stdout) = CsvHeaders(cli.args) + cli.i - 1
              /\ cli.pc = "done" => cli.i - 1 = Len(cli.args.files)
              /\ ~cli.args.no_header =>
                    cli.stdout[1] = CsvHeaderRow(cli.args)
              /\ \A k \in 1..(cli.i - 1) :
                    cli.stdout[CsvHeaders(cli.args) + k] =
                        CsvDataRow(cli.args, cli.args.files[k])

\* a finished CSV run with a header, the filename column, two -p templates
\* and two different files: three rows of three columns
C21_Witness ==
    /\ cli.pc = "done"
    /\ ~cli.args.no_header
    /\ ~cli.args.no_filename
    /\ Len(cli.args.templates) = 2
    /\ cli.args.templates[1] # cli.args.templates[2]
    /\ cli.args.files = <<"pears", "warm">>
    /\ Len(cli.stdout) = 3
    /\ \A r \in 1..3 : Len(cli.stdout[r]) = 3

----------------------------------------------------------------------------
(* The JSON output *)

\* the strings the -p value T of a JSON run renders to for the file f, by
\* the meaning of its template; an undefined value is marked by None
JsonRendered(f, T) ==
    IF T \in {Braced(f_size), t_filename \o <<"=">> \o Braced(f_size)}
    THEN <<Some(IntToStr(st_size[f]))>>
    ELSE IF T = <<"n", ":", " ">> \o Braced(f_tags)
    THEN (IF f = "pears" THEN <<Some(<<"r">>), Some(<<"g">>)>> ELSE <<None>>)
    ELSE IF T = <<"n", ":">> THEN <<>>
    ELSE <<Some(<<>>)>>

\* an undefined value is the --undefined string, null when none is given
JsonScalar(s, undefined) ==
    IF s # None THEN JString(s[1])
    ELSE IF undefined = None THEN JNull
    ELSE JString(undefined[1])

\* the rendered result as a JSON value: a scalar for exactly one string, a
\* list otherwise
JsonResult(strs, undefined) ==
    IF Len(strs) = 1 THEN JsonScalar(strs[1], undefined)
    ELSE JArray([i \in DOMAIN strs |-> JsonScalar(strs[i], undefined)])

\* the same with every empty string written as null
NullForEmpty(value) ==
    IF value = JString(<<>>) THEN JNull
    ELSE IF value.type = "array"
    THEN JArray([i \in DOMAIN value.items |->
                    IF value.items[i] = JString(<<>>) THEN JNull
                    ELSE value.items[i]])
    ELSE value

\* the key of the j-th -p value, and the keys an object is to have
JsonKey(a, j) == get_field_name(a.templates[j]).val
JsonKeys(a) ==
    {JsonKey(a, j) : j \in DOMAIN a.templates}
        \cup (IF a.no_filename THEN {} ELSE {t_filename})

\* the objects printed by a finished run, in the order they are printed,
\* provided the output has the shape the --array flag asks for
JsonShape ==
    IF cli.args.array
    THEN Len(cli.stdout) = 1 /\ cli.stdout[1].type = "array"
    ELSE \A k \in DOMAIN cli.stdout : cli.stdout[k].type = "object"
JsonPrinted ==
    IF cli.args.array
    THEN cli.stdout[1].items
    ELSE [k \in DOMAIN cli.stdout |-> cli.stdout[k].data]

\* the filename entry of the object of file f
JsonFilename(data, a, f) ==
    ~a.no_filename =>
        data[t_filename] = JString(CsvFilename(f, a.path))

\* C22 as the spec has it: one object per file in the order of the file
\* arguments, alone or inside one array with --array; the object maps the
\* field name of every -p template to its rendered result, a scalar for
\* exactly one string and a list otherwise, and has the filename key unless
\* --no-filename is given
C22_JsonOutput ==
    cli.pc = "done" =>
        /\ JsonShape
        /\ Len(JsonPrinted) = Len(cli.args.files)
        /\ \A k \in DOMAIN JsonPrinted :
              /\ DOMAIN JsonPrinted[k] = JsonKeys(cli.args)
              /\ JsonFilename(JsonPrinted[k], cli.args, cli.args.files[k])
              /\ \A j \in DOMAIN cli.args.templates :
                    JsonPrinted[k][JsonKey(cli.args, j)] =
                        JsonResult(JsonRendered(cli.args.files[k],
                                                cli.args.templates[j]),
                                   cli.args.undefined)

\* the -p values whose result an object keeps: the last one of each field
\* name, and none named filename when the filename key is written
JsonKept(a, j) ==
    /\ \A h \in DOMAIN a.templates : h > j => JsonKey(a, h) # JsonKey(a, j)
    /\ a.no_filename \/ JsonKey(a, j) # t_filename

\* C22 amended: one object per file in the order of the file arguments,
\* alone or inside one array with --array; the keys of the object are the
\* field names of the -p templates and filename unless --no-filename is
\* given; filename maps to the name of the file, and every other key to the
\* rendered result of the last -p template with that field name, a scalar
\* for exactly one string and a list otherwise, an empty string being
\* written as null
C22_JsonOutputLastWins ==
    cli.pc = "done" =>
        /\ JsonShape
        /\ Len(JsonPrinted) = Len(cli.args.files)
        /\ \A k \in DOMAIN JsonPrinted :
              /\ DOMAIN JsonPrinted[k] = JsonKeys(cli.args)
              /\ JsonFilename(JsonPrinted[k], cli.args, cli.args.files[k])
              /\ \A j \in DOMAIN cli.args.templates :
                    JsonKept(cli.args, j) =>
                        JsonPrinted[k][JsonKey(cli.args, j)] =
                            NullForEmpty(
                                JsonResult(
                                    JsonRendered(cli.args.files[k],
                                                 cli.args.templates[j]),
                                    cli.args.undefined))

\* a finished run on two files whose two -p values have the same field
\* name: each object has the result of the second one
C22_Witness ==
    /\ cli.pc = "done"
    /\ ~cli.args.array
    /\ ~cli.args.no_filename
    /\ cli.args.files = <<"pears", "warm">>
    /\ cli.args.templates =
           <<<<"n", ":", " ">> \o Braced(f_tags), <<"n", ":">>>>
    /\ Len(cli.stdout) = 2
    /\ cli.stdout[1].data[<<"n">>] = JArray(<<>>)
    /\ cli.stdout[2].data[t_filename] = JString(PathName(filepath_of.warm))

=============================================================================
